---- MODULE Spec2Model ----
(***************************************************************************)
(* A model of frizbee's reference-resolution and line-rewriting engine:    *)
(* the GitHub Actions parser and its checksum resolver, the container      *)
(* image parser, the line-rewrite driver (ParseFile) and the directory     *)
(* driver (ParsePathInFS).  Text is kept as real strings; the Go string    *)
(* functions the code calls are defined below by what they compute.        *)
(***************************************************************************)
EXTENDS Integers, Sequences, FiniteSets, TLC

\* a local variable (v := ...): v is computed once, F is what the code does with it
With(v, F(_)) == CHOOSE r \in {F(x) : x \in {v}} : TRUE

(***************************************************************************)
(* Go's strings package, as the code uses it.                              *)
(***************************************************************************)
Ch(s, i) == SubSeq(s, i, i)

HasPrefix(s, p) == Len(s) >= Len(p) /\ SubSeq(s, 1, Len(p)) = p

TrimPrefix(s, p) == IF HasPrefix(s, p) THEN SubSeq(s, Len(p) + 1, Len(s)) ELSE s

\* the least element of a non-empty set of positions
Least(S) == CHOOSE k \in S : \A m \in S : k <= m

\* first position >= i where sub starts in s, 0 when there is none
IndexFrom(s, sub, i) ==
    With({k \in i..(Len(s) - Len(sub) + 1) : SubSeq(s, k, k + Len(sub) - 1) = sub},
         LAMBDA hits : IF hits = {} THEN 0 ELSE Least(hits))

Index(s, sub) == IndexFrom(s, sub, 1)

Contains(s, sub) == Index(s, sub) > 0

RECURSIVE Split(_, _)
Split(s0, sep) ==
    With(s0, LAMBDA s :
    With(Index(s, sep), LAMBDA i :
        IF i = 0 THEN <<s>>
        ELSE <<SubSeq(s, 1, i - 1)>> \o Split(SubSeq(s, i + Len(sep), Len(s)), sep)))

RECURSIVE Join(_, _)
Join(elems, sep) ==
    IF Len(elems) = 0 THEN ""
    ELSE IF Len(elems) = 1 THEN elems[1]
    ELSE elems[1] \o sep \o Join(Tail(elems), sep)

SliceContains(list, x) == \E i \in 1..Len(list) : list[i] = x

IsSpace(c) == c \in {" ", "\t", "\n", "\r", "\f"}

\* strings.TrimLeft(s, " \t\n\r")
RECURSIVE TrimLeftSpace(_)
TrimLeftSpace(s) ==
    IF Len(s) > 0 /\ Ch(s, 1) \in {" ", "\t", "\n", "\r"} THEN TrimLeftSpace(Tail(s)) ELSE s

RECURSIVE TrimRightSpace(_)
TrimRightSpace(s) ==
    IF Len(s) > 0 /\ IsSpace(Ch(s, Len(s))) THEN TrimRightSpace(SubSeq(s, 1, Len(s) - 1)) ELSE s

RECURSIVE TrimAllLeft(_)
TrimAllLeft(s) == IF Len(s) > 0 /\ IsSpace(Ch(s, 1)) THEN TrimAllLeft(Tail(s)) ELSE s

TrimSpace(s) == With(TrimAllLeft(s), LAMBDA l : TrimRightSpace(l))

\* bufio's dropCR: one trailing carriage return is not part of the line
dropCR(data) ==
    IF Len(data) > 0 /\ Ch(data, Len(data)) = "\r" THEN SubSeq(data, 1, Len(data) - 1) ELSE data

\* bufio.ScanLines on the rest of the reader: the token handed out and the bytes consumed
ScanLines(data) ==
    With(Index(data, "\n"), LAMBDA i :
        IF i > 0 THEN [token |-> dropCR(SubSeq(data, 1, i - 1)), advance |-> i]
        ELSE [token |-> dropCR(data), advance |-> Len(data)])

\* url.JoinPath on relative elements: empty elements vanish, the rest are joined by "/"
JoinPath(elems) == Join(SelectSeq(elems, LAMBDA e : e # ""), "/")

(***************************************************************************)
(* The two matching patterns, by what Go's regexp (leftmost match, greedy  *)
(* repetition, first alternative first) finds in a line.                   *)
(***************************************************************************)
\* first position >= i whose character satisfies Stop (Len(s)+1 when there is none)
FirstWhere(s, i, Stop(_)) ==
    With({k \in i..Len(s) : Stop(Ch(s, k))},
         LAMBDA hits : IF hits # {} THEN Least(hits) ELSE IF i > Len(s) THEN i ELSE Len(s) + 1)

\* first position >= i that holds no white space (Len(s)+1 when there is none)
SkipSpaces(s, i) == FirstWhere(s, i, LAMBDA c : ~IsSpace(c))

\* last position of the run [^\s]+ that starts at i (i-1 when the run is empty)
NonSpaceEnd(s, i) == FirstWhere(s, i, IsSpace) - 1

\* last position of the run [^\s"']+ that starts at i (i-1 when the run is empty)
NonSpaceQuoteEnd(s, i) ==
    FirstWhere(s, i, LAMBDA c : IsSpace(c) \/ c \in {"\"", "'"}) - 1

HasAt(s, i, lit) == i + Len(lit) - 1 <= Len(s) /\ SubSeq(s, i, i + Len(lit) - 1) = lit

\* GitHubActionsRegex: uses:\s*[^\s]+/[^\s]+@[^\s]+|uses:\s*docker://[^\s]+:[^\s]+
\* The end of the match that starts at i, 0 when none starts there.
GitHubActionsRegexAt(s, i) ==
    IF ~HasAt(s, i, "uses:") THEN 0
    ELSE LET j == SkipSpaces(s, i + 5)
             e == NonSpaceEnd(s, j)
             R == SubSeq(s, j, e)
             n == Len(R)
             alt1 == \E a \in 2..n : /\ Ch(R, a) = "/"
                                     /\ \E b \in (a + 2)..(n - 1) : Ch(R, b) = "@"
             alt2 == /\ HasPrefix(R, "docker://")
                     /\ \E p \in 11..(n - 1) : Ch(R, p) = ":"
         IN IF alt1 \/ alt2 THEN e ELSE 0

\* ContainerImageRegex:
\*   image\s*:\s*["']?([^\s"']+/[^\s"']+|[^\s"']+)(:[^\s"']+)?(@[^\s"']+)?["']?
\*   |FROM\s+(--platform=[^\s]+[^\s]*\s+)?([^\s]+(/[^\s]+)?(:[^\s]+)?(@[^\s]+)?)
ContainerImageRegexAt(s, i) ==
    IF HasAt(s, i, "image")
    THEN LET c  == SkipSpaces(s, i + 5)
             j  == SkipSpaces(s, c + 1)
             q  == IF j <= Len(s) /\ Ch(s, j) \in {"\"", "'"} THEN j + 1 ELSE j
             e  == NonSpaceQuoteEnd(s, q)
             e2 == IF e + 1 <= Len(s) /\ Ch(s, e + 1) \in {"\"", "'"} THEN e + 1 ELSE e
         IN IF c <= Len(s) /\ Ch(s, c) = ":" /\ e >= q THEN e2 ELSE 0
    ELSE IF HasAt(s, i, "FROM")
    THEN LET j  == SkipSpaces(s, i + 4)
             e  == NonSpaceEnd(s, j)
             \* the optional --platform=... group, taken when an image follows it
             k  == SkipSpaces(s, e + 1)
             e3 == NonSpaceEnd(s, k)
             flag == HasAt(s, j, "--platform=") /\ e >= j + 11 /\ k > e + 1 /\ e3 >= k
         IN IF j > i + 4 /\ e >= j THEN (IF flag THEN e3 ELSE e) ELSE 0
    ELSE 0

RegexAt(regex, s, i) ==
    IF regex = "actions" THEN GitHubActionsRegexAt(s, i) ELSE ContainerImageRegexAt(s, i)

\* regexp.FindAllStringIndex: the non-overlapping matches, left to right, as <<first, last>>
RECURSIVE FindAllFrom(_, _, _)
FindAllFrom(regex, s, i) ==
    With({k \in i..Len(s) : RegexAt(regex, s, k) > 0}, LAMBDA starts :
        IF starts = {} THEN <<>>
        ELSE With(Least(starts), LAMBDA k :
             With(RegexAt(regex, s, k), LAMBDA e :
                 <<(<<k, e>>)>> \o FindAllFrom(regex, s, e + 1))))

FindAll(regex, s) == FindAllFrom(regex, s, 1)

(***************************************************************************)
(* Errors are chains of wrapped messages, outermost first: fmt.Errorf with  *)
(* %w puts a message in front of the chain it wraps, errors.Is looks for a  *)
(* sentinel anywhere in the chain.  The empty chain is the nil error.       *)
(***************************************************************************)
NoErr == <<>>

ErrReferenceSkipped == "reference skipped"

ErrInvalidAction == "invalid action"

ErrInvalidActionReference == "action reference is not a tag nor branch"

ErrTransport == "transport failure"

\* context.Canceled
ErrCanceled == "context canceled"

Wrap(msg, err) == <<msg>> \o err

ErrorsIs(err, target) == \E i \in 1..Len(err) : err[i] = target

\* the nil *EntityRef
NilRef == [nil |-> TRUE]

EntityRef(name, ref, type, tag, prefix) ==
    [Name |-> name, Ref |-> ref, Type |-> type, Tag |-> tag, Prefix |-> prefix]

ActionReferenceType == "action"

ImageReferenceType == "container"

prefixUses == "uses: "

prefixDocker == "docker://"

prefixFROM == "FROM "

prefixImage == "image: "

ChecksumLen == 40

(***************************************************************************)
(* The Actions parser's helpers.                                           *)
(***************************************************************************)
isLocal(input) == HasPrefix(input, "./") \/ HasPrefix(input, "../")

shouldExclude(ghcfg, input) == \E i \in 1..Len(ghcfg.Exclude) : ghcfg.Exclude[i] = input

stripQuotes(input0) ==
    With(TrimSpace(input0), LAMBDA input :
        IF Len(input) >= 2 /\ (\/ Ch(input, 1) = "'" /\ Ch(input, Len(input)) = "'"
                               \/ Ch(input, 1) = "\"" /\ Ch(input, Len(input)) = "\"")
        THEN SubSeq(input, 2, Len(input) - 1)
        ELSE input)

\* (action, reference, err)
ParseActionReference(input0) ==
    With(Split(stripQuotes(input0), "@"), LAMBDA frags :
        IF Len(frags) # 2
        THEN [action |-> "", reference |-> "", err |-> <<"invalid action reference">>]
        ELSE [action |-> frags[1], reference |-> frags[2], err |-> NoErr])

\* (owner, repo, err)
parseActionFragments(action) ==
    With(Split(action, "/"), LAMBDA frags :
        IF Len(frags) < 2
        THEN [owner |-> "", repo |-> "", err |-> <<ErrInvalidAction>>]
        ELSE [owner |-> frags[1], repo |-> frags[2], err |-> NoErr])

\* a variant of isChecksum that asks for forty hexadecimal digits
isChecksumHexOnly(ref) ==
    Len(ref) = ChecksumLen /\ \A i \in 1..Len(ref) : Ch(ref, i) \in {Ch("0123456789abcdef", k) : k \in 1..16}

isChecksum(ref) == Len(ref) = ChecksumLen

\* a variant of excludeBranch that excludes nothing
excludeBranchNever(excludes, branch) == FALSE

\* a variant of excludeBranch that excludes every branch once the list is not empty
excludeBranchAny(excludes, branch) == Len(excludes) > 0

excludeBranch(excludes, branch) ==
    IF Len(excludes) = 0 THEN FALSE
    ELSE IF SliceContains(excludes, "*") THEN TRUE
    ELSE SliceContains(excludes, branch)

tagPath(owner, repo, tag) == JoinPath(<<"repos", owner, repo, "git", "refs", "tags", tag>>)

tagObjectPath(owner, repo, sha) == JoinPath(<<"repos", owner, repo, "git", "tags", sha>>)

branchPath(owner, repo, branch) == JoinPath(<<"repos", owner, repo, "git", "refs", "heads", branch>>)

(***************************************************************************)
(* What REST.Do hands back: resp is FALSE for a nil *http.Response, err is  *)
(* the error (NoErr for nil), body is what the response body decodes to.    *)
(* ghrest.Client.Do returns (nil, err) when the transport failed, and the   *)
(* response together with an error for a status outside 2xx.                *)
(***************************************************************************)
StatusNotFound == 404

DoTransportFailure ==
    [kind |-> "transport", resp |-> FALSE, err |-> <<ErrTransport>>, status |-> 0,
     body |-> "none", sha |-> "", otype |-> ""]

\* restIf.Do under a canceled context: no response, and the context's error
DoCanceled ==
    [kind |-> "canceled", resp |-> FALSE, err |-> <<ErrCanceled>>, status |-> 0,
     body |-> "none", sha |-> "", otype |-> ""]

DoStatus(code) ==
    [kind |-> IF code = StatusNotFound THEN "not found" ELSE "status", resp |-> TRUE,
     err |-> <<"unexpected status">>, status |-> code,
     body |-> "none", sha |-> "", otype |-> ""]

DoObject(sha, otype) ==
    [kind |-> "object", resp |-> TRUE, err |-> NoErr, status |-> 200,
     body |-> "object", sha |-> sha, otype |-> otype]

DoArray ==
    [kind |-> "array", resp |-> TRUE, err |-> NoErr, status |-> 200,
     body |-> "array", sha |-> "", otype |-> ""]

DoGarbage ==
    [kind |-> "garbage", resp |-> TRUE, err |-> NoErr, status |-> 200,
     body |-> "garbage", sha |-> "", otype |-> ""]

\* doGetReference after restIf.Do returned d: (sha, otype, err), or a panic where the
\* code reads resp.StatusCode through a nil resp
doGetReference(d) ==
    IF ~d.resp
    THEN [panic |-> TRUE, sha |-> "", otype |-> "", err |-> NoErr]
    ELSE IF d.err # NoErr /\ d.status # StatusNotFound
    THEN [panic |-> FALSE, sha |-> "", otype |-> "",
          err |-> Wrap("failed to do API request", d.err)]
    ELSE IF d.status = StatusNotFound
    THEN [panic |-> FALSE, sha |-> "", otype |-> "", err |-> NoErr]
    ELSE IF d.body = "array"
    THEN [panic |-> FALSE, sha |-> "", otype |-> "", err |-> NoErr]
    ELSE IF d.body # "object"
    THEN [panic |-> FALSE, sha |-> "", otype |-> "",
          err |-> Wrap("canont decode response", <<"cannot unmarshal">>)]
    ELSE [panic |-> FALSE, sha |-> d.sha, otype |-> d.otype, err |-> NoErr]

(***************************************************************************)
(* Image references, as go-containerregistry's name.ParseReference reads    *)
(* them: registry/repository:tag or registry/repository@sha256:<64 hex>.    *)
(***************************************************************************)
CharsOf(s) == {Ch(s, i) : i \in 1..Len(s)}

AllIn(s, set) == \A i \in 1..Len(s) : Ch(s, i) \in set

RepositoryChars == CharsOf("abcdefghijklmnopqrstuvwxyz0123456789_-./")

TagChars == CharsOf("abcdefghijklmnopqrstuvwxyzABCDEFGHIJKLMNOPQRSTUVWXYZ0123456789_-.")

HexChars == CharsOf("0123456789abcdef")

DefaultRegistry == "index.docker.io"

DefaultTag == "latest"

NoReference == [ok |-> FALSE, name |-> "", identifier |-> ""]

\* name.NewRepository: (ok, name), name being registry/repository
NewRepository(base0) ==
    With(base0, LAMBDA base :
    With(Index(base, "/"), LAMBDA slash :
    With(IF slash = 0 THEN base ELSE SubSeq(base, 1, slash - 1), LAMBDA first :
    With(slash > 0 /\ (Contains(first, ".") \/ Contains(first, ":") \/ first = "localhost"),
         LAMBDA hasRegistry :
    With(IF hasRegistry THEN SubSeq(base, slash + 1, Len(base)) ELSE base, LAMBDA repo :
        IF Len(repo) < 2 \/ ~AllIn(repo, RepositoryChars)
        THEN [ok |-> FALSE, name |-> ""]
        ELSE [ok |-> TRUE,
              name |-> (IF hasRegistry THEN first ELSE DefaultRegistry) \o "/"
                       \o (IF ~hasRegistry /\ ~Contains(repo, "/") THEN "library/" ELSE "")
                       \o repo])))))

\* name.NewTag
NewTag(name0) ==
    With(name0, LAMBDA name :
    With(Split(name, ":"), LAMBDA parts :
    With(Len(parts) > 1 /\ ~Contains(parts[Len(parts)], "/"), LAMBDA split :
    With(IF split THEN parts[Len(parts)] ELSE "", LAMBDA tag :
    With(NewRepository(IF split THEN Join(SubSeq(parts, 1, Len(parts) - 1), ":") ELSE name),
         LAMBDA repo :
        IF (tag # "" /\ ~AllIn(tag, TagChars)) \/ ~repo.ok
        THEN NoReference
        ELSE [ok |-> TRUE, name |-> repo.name,
              identifier |-> IF tag = "" THEN DefaultTag ELSE tag])))))

\* name.NewDigest
NewDigest(name) ==
    With(Split(name, "@"), LAMBDA parts :
        IF Len(parts) # 2 THEN NoReference
        ELSE With(TrimPrefix(parts[2], "sha256:"), LAMBDA hex :
             IF ~HasPrefix(parts[2], "sha256:") \/ Len(hex) # 64 \/ ~AllIn(hex, HexChars)
             THEN NoReference
             ELSE With(NewTag(parts[1]), LAMBDA tag :
                  With(NewRepository(IF tag.ok THEN tag.name ELSE parts[1]), LAMBDA repo :
                       IF ~repo.ok THEN NoReference
                       ELSE [ok |-> TRUE, name |-> repo.name, identifier |-> parts[2]]))))

\* name.ParseReference: ref.Context().Name() is .name, ref.Identifier() is .identifier
ParseReference(s0) ==
    With(s0, LAMBDA s :
    With(NewTag(s), LAMBDA t : IF t.ok THEN t ELSE NewDigest(s)))

(***************************************************************************)
(* The image parser's helpers.                                             *)
(***************************************************************************)
getImageNameFromRef(nameRef) ==
    With(Split(nameRef.name, "/"), LAMBDA parts :
        IF Len(parts) > 1 THEN parts[Len(parts)] ELSE "")

shouldSkipImageRef(cfg, ref) ==
    With(ParseReference(ref), LAMBDA nameRef :
        IF ~nameRef.ok THEN TRUE
        ELSE IF SliceContains(cfg.Images.ExcludeImages, getImageNameFromRef(nameRef)) THEN TRUE
        ELSE SliceContains(cfg.Images.ExcludeTags, nameRef.identifier))

\* the words of a Dockerfile line, as the buildkit parser splits an instruction
RECURSIVE Words(_)
Words(s0) ==
    With(s0, LAMBDA s :
    With(SkipSpaces(s, 1), LAMBDA j :
    With(NonSpaceEnd(s, j), LAMBDA e :
        IF j > Len(s) THEN <<>>
        ELSE <<SubSeq(s, j, e)>> \o Words(SubSeq(s, e + 1, Len(s))))))

RECURSIVE LeadingFlags(_)
LeadingFlags(ws) ==
    IF Len(ws) > 0 /\ HasPrefix(ws[1], "--") THEN <<ws[1]>> \o LeadingFlags(Tail(ws)) ELSE <<>>

\* (unresolvedImage{imageRef, flags}, err)
getRefFromDockerfileFROM(line) ==
    With(Words(line), LAMBDA ws :
        IF Len(ws) = 0 \/ ws[1] \notin {"FROM", "from", "From"}
        THEN [imageRef |-> "", flags |-> <<>>,
              err |-> <<"invalid Dockerfile line: the first parsed node is not FROM">>]
        ELSE With(LeadingFlags(Tail(ws)), LAMBDA flags :
             IF Len(ws) < Len(flags) + 2
             THEN [imageRef |-> "", flags |-> <<>>,
                   err |-> <<"invalid Dockerfile line: no image node found">>]
             ELSE [imageRef |-> ws[Len(flags) + 2], flags |-> flags, err |-> NoErr]))

\* the platform option of GetImageDigestFromRef: "" or os/arch
platformOK(platform) == platform = "" \/ Len(Split(platform, "/")) = 2

(***************************************************************************)
(* The RefCacher's two implementations over the content m of their map:    *)
(* refCacher hands each call to an xsync.MapOf, unsafeCacher to a Go map.  *)
(***************************************************************************)
\* a variant of refCacher.Store that leaves only the key it was given
refCacherStoreAlone(m, key, value) == (key :> value)

\* r.cache.Store(key, value) on the xsync.MapOf
refCacherStore(m, key, value) == (key :> value) @@ m

\* r.cache.Load(key) on the xsync.MapOf
refCacherLoad(m, key) ==
    IF key \in DOMAIN m THEN [value |-> m[key], ok |-> TRUE] ELSE [value |-> "", ok |-> FALSE]

\* a variant of unsafeCacher.Store that keeps the value a key already has
unsafeCacherStoreKeepsFirst(m, key, value) ==
    [k \in DOMAIN m \cup {key} |-> IF k \in DOMAIN m THEN m[k] ELSE value]

\* r.cache[key] = value
unsafeCacherStore(m, key, value) ==
    [k \in DOMAIN m \cup {key} |-> IF k = key THEN value ELSE m[k]]

\* v, ok := r.cache[key]
unsafeCacherLoad(m, key) ==
    IF key \in DOMAIN m THEN [value |-> m[key], ok |-> TRUE] ELSE [value |-> "", ok |-> FALSE]

\* RefCacher.Store on the implementation in use
CacherStore(impl, m, key, value) ==
    IF impl = "refCacher" THEN refCacherStore(m, key, value)
    ELSE unsafeCacherStore(m, key, value)

\* RefCacher.Load on the implementation in use
CacherLoad(impl, m, key) ==
    IF impl = "refCacher" THEN refCacherLoad(m, key) ELSE unsafeCacherLoad(m, key)

(***************************************************************************)
(* One call of parser.Replace, cut at its network requests.  A call is a   *)
(* record: the matched text, what the code has derived from it so far, the *)
(* requests issued, and once stage = "returned" the (ret, err) pair.       *)
(***************************************************************************)
NewCall(matchedLine) ==
    [matched |-> matchedLine, stage |-> "start", form |-> "", hasUsesPrefix |-> FALSE,
     key |-> "", act |-> "", ref |-> "", owner |-> "", repo |-> "", sha |-> "",
     name |-> "", identifier |-> "", extraArgs |-> "",
     reqs |-> <<>>, resps |-> <<>>, hit |-> FALSE, stored |-> FALSE, sum |-> "",
     tagDone |-> FALSE, tagRes |-> "", exclChecked |-> FALSE,
     ret |-> NilRef, err |-> NoErr]

\* parser.Replace hands (nil, err) or the reference with its prefix restored
ReplaceReturn(c, ret, err) ==
    IF err # NoErr
    THEN [c EXCEPT !.stage = "returned", !.ret = NilRef, !.err = err]
    ELSE With((IF c.hasUsesPrefix THEN prefixUses ELSE "")
              \o (IF c.form = "docker" THEN prefixDocker
                  ELSE IF c.form = "from" THEN prefixFROM \o c.extraArgs
                  ELSE IF c.form = "image" THEN prefixImage
                  ELSE ""),
              LAMBDA prefix :
                  [c EXCEPT !.stage = "returned", !.err = NoErr,
                            !.ret = [ret EXCEPT !.Prefix = prefix \o @]])

\* a variant of actionFinish that returns the reference even when it is pinned already
actionFinishAlways(c0, sum) ==
    With([c0 EXCEPT !.sum = sum], LAMBDA c :
        ReplaceReturn(c, EntityRef(c.act, sum, ActionReferenceType, c.ref, ""), NoErr))

\* the tail of replaceAction, once sum is known
actionFinish(c0, sum) ==
    With([c0 EXCEPT !.sum = sum], LAMBDA c :
        IF c.ref = sum
        THEN ReplaceReturn(c, NilRef,
                           Wrap("image already referenced by digest", <<ErrReferenceSkipped>>))
        ELSE ReplaceReturn(c, EntityRef(c.act, sum, ActionReferenceType, c.ref, ""), NoErr))

\* GetChecksum has returned (sum, err) to replaceAction
checksumReturn(cacheOn, c, sum, err) ==
    IF err # NoErr
    THEN ReplaceReturn(c, NilRef, Wrap("failed to get checksum for action", err))
    ELSE actionFinish([c EXCEPT !.stored = cacheOn], sum)

\* a variant of tagResult that goes on to the branch whatever the tag lookup found
tagResultThenBranch(cfg, cacheOn, c, res) ==
    With([c EXCEPT !.tagDone = TRUE, !.tagRes = res, !.exclChecked = TRUE], LAMBDA c2 :
        IF excludeBranch(cfg.GHActions.Filter.ExcludeBranches, c.ref)
        THEN checksumReturn(cacheOn, c2, "", <<ErrReferenceSkipped>>)
        ELSE [c2 EXCEPT !.stage = "branch"])

\* getCheckSumForTag has returned (res, nil) to GetChecksum
tagResult(cfg, cacheOn, c, res) ==
    With([c EXCEPT !.tagDone = TRUE, !.tagRes = res], LAMBDA c1 :
        IF res # "" THEN checksumReturn(cacheOn, c1, res, NoErr)
        ELSE With([c1 EXCEPT !.exclChecked = TRUE], LAMBDA c2 :
             IF excludeBranch(cfg.GHActions.Filter.ExcludeBranches, c.ref)
             THEN checksumReturn(cacheOn, c2, "", <<ErrReferenceSkipped>>)
             ELSE [c2 EXCEPT !.stage = "branch"]))

\* getCheckSumForTag after its first doGetReference
afterTag(cfg, cacheOn, c, d) ==
    With(doGetReference(d), LAMBDA r :
        IF r.panic THEN [c EXCEPT !.stage = "panic"]
        ELSE IF r.err # NoErr
        THEN checksumReturn(cacheOn, c, "", Wrap("failed to get checksum for tag", r.err))
        ELSE IF r.otype = "commit" THEN tagResult(cfg, cacheOn, c, r.sha)
        ELSE [c EXCEPT !.stage = "deref", !.sha = r.sha])

\* getCheckSumForTag after its second doGetReference
afterDeref(cfg, cacheOn, c, d) ==
    With(doGetReference(d), LAMBDA r :
        IF r.panic THEN [c EXCEPT !.stage = "panic"]
        ELSE IF r.err # NoErr
        THEN checksumReturn(cacheOn, c, "", Wrap("failed to get checksum for tag", r.err))
        ELSE tagResult(cfg, cacheOn, c, r.sha))

\* a variant of afterBranch that reports a reference found nowhere as skipped
afterBranchSkipsUnknown(cacheOn, c, d) ==
    With(doGetReference(d), LAMBDA r :
        IF r.panic THEN [c EXCEPT !.stage = "panic"]
        ELSE IF r.err # NoErr
        THEN checksumReturn(cacheOn, c, "", Wrap("failed to get checksum for branch", r.err))
        ELSE IF r.sha # "" THEN checksumReturn(cacheOn, c, r.sha, NoErr)
        ELSE checksumReturn(cacheOn, c, "", <<ErrReferenceSkipped>>))

\* GetChecksum after getCheckSumForBranch
afterBranch(cacheOn, c, d) ==
    With(doGetReference(d), LAMBDA r :
        IF r.panic THEN [c EXCEPT !.stage = "panic"]
        ELSE IF r.err # NoErr
        THEN checksumReturn(cacheOn, c, "", Wrap("failed to get checksum for branch", r.err))
        ELSE IF r.sha # "" THEN checksumReturn(cacheOn, c, r.sha, NoErr)
        ELSE checksumReturn(cacheOn, c, "", <<ErrInvalidActionReference>>))

\* GetChecksum up to its first request
GetChecksum(cacheOn, c) ==
    With(parseActionFragments(c.act), LAMBDA f :
        IF f.err # NoErr THEN checksumReturn(cacheOn, c, "", f.err)
        ELSE IF isChecksum(c.ref) THEN checksumReturn(cacheOn, c, c.ref, NoErr)
        ELSE [c EXCEPT !.owner = f.owner, !.repo = f.repo, !.stage = "tag"])

\* a variant of replaceAction that never asks the cache
replaceActionNoLoad(cfg, cacheOn, cache, c0, matchedLine) ==
    With([c0 EXCEPT !.form = "action", !.key = matchedLine], LAMBDA c :
        IF isLocal(matchedLine) \/ shouldExclude(cfg.GHActions, matchedLine)
        THEN ReplaceReturn(c, NilRef, <<ErrReferenceSkipped>>)
        ELSE With(ParseActionReference(matchedLine), LAMBDA p :
             With([c EXCEPT !.act = p.action, !.ref = p.reference], LAMBDA c1 :
                 IF p.err # NoErr
                 THEN ReplaceReturn(c, NilRef, Wrap("failed to parse action reference", p.err))
                 ELSE IF shouldExclude(cfg.GHActions, p.action)
                 THEN ReplaceReturn(c1, NilRef, <<ErrReferenceSkipped>>)
                 ELSE GetChecksum(cacheOn, c1))))

\* replaceAction up to the first request
replaceAction(cfg, cacheOn, cache, c0, matchedLine) ==
    With([c0 EXCEPT !.form = "action", !.key = matchedLine], LAMBDA c :
        IF isLocal(matchedLine) \/ shouldExclude(cfg.GHActions, matchedLine)
        THEN ReplaceReturn(c, NilRef, <<ErrReferenceSkipped>>)
        ELSE With(ParseActionReference(matchedLine), LAMBDA p :
             With([c EXCEPT !.act = p.action, !.ref = p.reference], LAMBDA c1 :
                 IF p.err # NoErr
                 THEN ReplaceReturn(c, NilRef, Wrap("failed to parse action reference", p.err))
                 ELSE IF shouldExclude(cfg.GHActions, p.action)
                 THEN ReplaceReturn(c1, NilRef, <<ErrReferenceSkipped>>)
                 ELSE IF cacheOn /\ matchedLine \in DOMAIN cache
                 THEN actionFinish([c1 EXCEPT !.hit = TRUE], cache[matchedLine])
                 ELSE GetChecksum(cacheOn, c1))))

\* what remote.Get hands back: an error, or the descriptor's digest
GetFailure == [err |-> TRUE, cause |-> "registry request failed", digest |-> ""]

\* remote.Get under a canceled context
GetCanceled == [err |-> TRUE, cause |-> ErrCanceled, digest |-> ""]

GetDigest(digest) == [err |-> FALSE, cause |-> "", digest |-> digest]

\* the tail of GetImageDigestFromRef once the digest is known, and for a
\* docker:// reference the tail of replaceDocker
imageFinish(cfg, c0, digest) ==
    With([c0 EXCEPT !.sum = digest], LAMBDA c :
        IF digest = c.identifier
        THEN ReplaceReturn(c, NilRef,
                           Wrap("image already referenced by digest", <<ErrReferenceSkipped>>))
        ELSE IF c.form = "docker" /\ shouldExclude(cfg.GHActions, c.name)
        THEN ReplaceReturn(c, NilRef, <<ErrReferenceSkipped>>)
        ELSE ReplaceReturn(c, EntityRef(c.name, digest, ImageReferenceType, c.identifier, ""),
                           NoErr))

\* a variant of afterRegistry that reports every failure of remote.Get in the same words
afterRegistryHidesCause(cfg, cacheOn, c, g) ==
    IF g.err THEN ReplaceReturn(c, NilRef, <<"registry request failed">>)
    ELSE imageFinish(cfg, [c EXCEPT !.stored = cacheOn], g.digest)

\* GetImageDigestFromRef after remote.Get
afterRegistry(cfg, cacheOn, c, g) ==
    IF g.err THEN ReplaceReturn(c, NilRef, <<g.cause>>)
    ELSE imageFinish(cfg, [c EXCEPT !.stored = cacheOn], g.digest)

\* GetImageDigestFromRef up to remote.Get
GetImageDigestFromRef(cfg, cacheOn, cache, c0, imageRef0) ==
    With(imageRef0, LAMBDA imageRef :
    With(ParseReference(imageRef), LAMBDA ref :
    With([c0 EXCEPT !.key = imageRef, !.name = ref.name, !.identifier = ref.identifier],
         LAMBDA c :
        IF ~ref.ok THEN ReplaceReturn(c0, NilRef, <<"could not parse reference">>)
        ELSE IF ~platformOK(cfg.Platform)
        THEN ReplaceReturn(c, NilRef, <<"platform must be in the format os/arch">>)
        ELSE IF cacheOn /\ imageRef \in DOMAIN cache
        THEN imageFinish(cfg, [c EXCEPT !.hit = TRUE], cache[imageRef])
        ELSE [c EXCEPT !.stage = "registry"])))

\* replaceDocker up to remote.Get
replaceDocker(cfg, cacheOn, cache, c0, matchedLine) ==
    With([c0 EXCEPT !.form = "docker"], LAMBDA c :
    With(TrimPrefix(matchedLine, prefixDocker), LAMBDA trimmedRef :
        IF isLocal(trimmedRef) \/ shouldExclude(cfg.GHActions, trimmedRef)
        THEN ReplaceReturn(c, NilRef, <<ErrReferenceSkipped>>)
        ELSE GetImageDigestFromRef(cfg, cacheOn, cache, c, trimmedRef)))

\* actions.Parser.Replace up to the first request
ActionsReplace(cfg, cacheOn, cache, matchedLine) ==
    With(HasPrefix(matchedLine, prefixUses), LAMBDA hasUsesPrefix :
    With(IF hasUsesPrefix THEN TrimPrefix(matchedLine, prefixUses) ELSE matchedLine,
         LAMBDA trimmed :
    With([NewCall(matchedLine) EXCEPT !.hasUsesPrefix = hasUsesPrefix], LAMBDA c :
        IF HasPrefix(trimmed, prefixDocker)
        THEN replaceDocker(cfg, cacheOn, cache, c, trimmed)
        ELSE replaceAction(cfg, cacheOn, cache, c, trimmed))))

\* image.Parser.Replace up to remote.Get
ImageReplace(cfg, cacheOn, cache, matchedLine) ==
    With(NewCall(matchedLine), LAMBDA c :
        IF HasPrefix(matchedLine, prefixFROM)
        THEN With(getRefFromDockerfileFROM(matchedLine), LAMBDA parsedFrom :
             With(Join(parsedFrom.flags, " "), LAMBDA extraArgs :
                 IF parsedFrom.err # NoErr THEN ReplaceReturn(c, NilRef, parsedFrom.err)
                 ELSE IF shouldSkipImageRef(cfg, parsedFrom.imageRef)
                 THEN ReplaceReturn(c, NilRef,
                          Wrap("image reference should be excluded", <<ErrReferenceSkipped>>))
                 ELSE GetImageDigestFromRef(cfg, cacheOn, cache,
                          [c EXCEPT !.form = "from",
                                    !.extraArgs = IF extraArgs # "" THEN extraArgs \o " " ELSE ""],
                          parsedFrom.imageRef)))
        ELSE IF HasPrefix(matchedLine, prefixImage)
        THEN With(TrimPrefix(matchedLine, prefixImage), LAMBDA imageRef :
                 IF shouldSkipImageRef(cfg, imageRef)
                 THEN ReplaceReturn(c, NilRef,
                          Wrap("image reference should be excluded", <<ErrReferenceSkipped>>))
                 ELSE GetImageDigestFromRef(cfg, cacheOn, cache,
                          [c EXCEPT !.form = "image"], imageRef))
        ELSE GetImageDigestFromRef(cfg, cacheOn, cache, [c EXCEPT !.form = "bare"], matchedLine))

\* r.parser.Replace: the parser the replacer was built with
ParserReplace(parser, cfg, cacheOn, cache, matchedLine) ==
    IF parser = "actions" THEN ActionsReplace(cfg, cacheOn, cache, matchedLine)
    ELSE ImageReplace(cfg, cacheOn, cache, matchedLine)

\* a variant of the callback's return that drops a match whose resolution failed
ReplacementDropsFailed(c) ==
    IF c.err # NoErr THEN ""
    ELSE IF Contains(c.matched, "FROM")
         THEN c.ret.Prefix \o c.ret.Name \o ":" \o c.ret.Tag \o "@" \o c.ret.Ref
         ELSE c.ret.Prefix \o c.ret.Name \o "@" \o c.ret.Ref \o " # " \o c.ret.Tag

\* the replacement function handed to ReplaceAllStringFunc, after Replace returned
Replacement(c) ==
    IF c.err # NoErr THEN c.matched
    ELSE IF Contains(c.matched, "FROM")
    THEN c.ret.Prefix \o c.ret.Name \o ":" \o c.ret.Tag \o "@" \o c.ret.Ref
    ELSE c.ret.Prefix \o c.ret.Name \o "@" \o c.ret.Ref \o " # " \o c.ret.Tag

\* strings.HasPrefix(strings.TrimLeft(line, " \t\n\r"), "#")
IsComment(line) == HasPrefix(TrimLeftSpace(line), "#")

(***************************************************************************)
(* ConvertToEntityRef of both parsers, and the set and the sort the lister *)
(* uses.                                                                   *)
(***************************************************************************)
\* a variant of the Actions parser's ConvertToEntityRef that keeps the quotes of the match
ActionsConvertToEntityRefKeepsQuotes(reference0) ==
    With(TrimPrefix(reference0, prefixUses), LAMBDA reference1 :
    With(Contains(reference1, prefixDocker), LAMBDA docker :
    With(IF docker THEN TrimPrefix(reference1, prefixDocker) ELSE reference1, LAMBDA reference :
    With(IF docker /\ ~Contains(reference, "@") /\ Contains(reference, ":") THEN ":" ELSE "@",
         LAMBDA separator :
    With(Split(reference, separator), LAMBDA frags :
        IF Len(frags) # 2
        THEN [ref |-> NilRef, err |-> <<"invalid action reference">>]
        ELSE [ref |-> EntityRef(frags[1], frags[2],
                                IF docker THEN ImageReferenceType ELSE ActionReferenceType,
                                "", ""),
              err |-> NoErr])))))

\* (*EntityRef, err) of the Actions parser
ActionsConvertToEntityRef(reference0) ==
    With(stripQuotes(TrimPrefix(reference0, prefixUses)), LAMBDA reference1 :
    With(Contains(reference1, prefixDocker), LAMBDA docker :
    With(IF docker THEN TrimPrefix(reference1, prefixDocker) ELSE reference1, LAMBDA reference :
    With(IF docker /\ ~Contains(reference, "@") /\ Contains(reference, ":") THEN ":" ELSE "@",
         LAMBDA separator :
    With(Split(reference, separator), LAMBDA frags :
        IF Len(frags) # 2
        THEN [ref |-> NilRef, err |-> <<"invalid action reference">>]
        ELSE [ref |-> EntityRef(frags[1], frags[2],
                                IF docker THEN ImageReferenceType ELSE ActionReferenceType,
                                "", ""),
              err |-> NoErr])))))

\* (*EntityRef, err) of the image parser
ImageConvertToEntityRef(reference0) ==
    With(TrimPrefix(TrimPrefix(reference0, prefixImage), prefixFROM), LAMBDA reference :
    With(IF Contains(reference, "@") THEN "@" ELSE IF Contains(reference, ":") THEN ":" ELSE "",
         LAMBDA sep :
    With(IF sep # "" THEN Split(reference, sep) ELSE <<reference, "latest">>, LAMBDA frags :
        IF Len(frags) # 2
        THEN [ref |-> NilRef, err |-> <<"invalid container reference">>]
        ELSE [ref |-> EntityRef(frags[1], frags[2], ImageReferenceType, "", ""),
              err |-> NoErr])))

\* parser.ConvertToEntityRef: the parser the replacer was built with
ConvertToEntityRef(parser, reference) ==
    IF parser = "actions" THEN ActionsConvertToEntityRef(reference)
    ELSE ImageConvertToEntityRef(reference)

\* the bytes that occur in names, in the order of their values
Ascii == " \"#'-./0123456789:=@ABCDEFGHIJKLMNOPQRSTUVWXYZ_abcdefghijklmnopqrstuvwxyz"

\* Go's a < b on strings: byte by byte, a proper prefix first
StringLess(a, b) ==
    \E k \in 1..Len(b) :
        /\ k <= Len(a) + 1
        /\ SubSeq(a, 1, k - 1) = SubSeq(b, 1, k - 1)
        /\ IF k = Len(a) + 1 THEN TRUE ELSE Index(Ascii, Ch(a, k)) < Index(Ascii, Ch(b, k))

\* a variant of ToSlice in which an element of the set may stand in the slice twice
ToSliceRepeats(set) ==
    {seq \in UNION {[1..n -> set] : n \in Cardinality(set)..(Cardinality(set) + 1)} :
        \A e \in set : \E i \in DOMAIN seq : seq[i] = e}

\* mapset's ToSlice ranges over a Go map: every element once, in any order
ToSlice(set) ==
    {seq \in [1..Cardinality(set) -> set] : \A e \in set : \E i \in DOMAIN seq : seq[i] = e}

\* sort.Slice by Name, which is not stable: every rearrangement of the slice in which no
\* Name stands before a lesser one
SortSlice(slice) ==
    {[i \in DOMAIN slice |-> slice[p[i]]] : p \in
        {q \in [DOMAIN slice -> DOMAIN slice] :
            /\ \A i, j \in DOMAIN slice : i # j => q[i] # q[j]
            /\ \A i, j \in DOMAIN slice : i < j => ~StringLess(slice[q[j]].Name, slice[q[i]].Name)}}

\* a variant of the matching pass of listReferencesInFile that looks into comments too
listLineReadsComments(parser, line) ==
    With(FindAll(parser, line), LAMBDA foundEntries :
        {e.ref : e \in {r \in {ConvertToEntityRef(parser, SubSeq(line, foundEntries[i][1],
                                                                   foundEntries[i][2])) :
                                   i \in 1..Len(foundEntries)} : r.err = NoErr}})

\* the set one line adds in listReferencesInFile: nothing for a comment, else the
\* entity of every match that ConvertToEntityRef accepts
listLine(parser, line) ==
    IF IsComment(line) THEN {}
    ELSE With(FindAll(parser, line), LAMBDA foundEntries :
        {e.ref : e \in {r \in {ConvertToEntityRef(parser, SubSeq(line, foundEntries[i][1],
                                                                   foundEntries[i][2])) :
                                   i \in 1..Len(foundEntries)} : r.err = NoErr}})

(***************************************************************************)
(* The inputs: replacers, configurations, file lines, upstream answers.    *)
(***************************************************************************)
MaxLines == 2

DirMaxLines == 1

Tasks == {"workflow.yml", "deploy.yml"}

\* the reader handed to ParseFile
FileTask == "workflow.yml"

ShaCommit == "8f4b7f84864484a7bf31766abe9204da3cbe65b3"

ShaTag == "c4a742cab115ed795e34d4513e2cf7d472deb55f"

DigestA == "sha256:8b8125d7a6e4225b08f04f65ca947b27d0cc86380bf09fab890cc80408230114"

Config(exclude, excludeBranches, platform) ==
    [GHActions |-> [Exclude |-> exclude, Filter |-> [ExcludeBranches |-> excludeBranches]],
     Images |-> [ExcludeImages |-> <<"scratch">>, ExcludeTags |-> <<"latest">>],
     Platform |-> platform]

\* the configuration in force when the user's file sets no exclude_branches: the
\* branches main and master are excluded, next to the image scratch and the tag latest
defaultConfig == Config(<<>>, <<"main", "master">>, "")

Configs ==
    { Config(<<>>, <<>>, ""),
      Config(<<"actions/cache", "index.docker.io/library/alpine">>, <<"*">>, "linux/amd64"),
      Config(<<"actions/cache">>, <<"main">>, "linux") }

ActionLines ==
    { "      - uses: actions/checkout@v2",
      "      - uses: actions/checkout@@v2",
      "      - uses: actions/cache@v4",
      "      - uses: ./local/action@v1",
      "      - uses: docker://alpine:3.19",
      "      - uses: actions/checkout@v2 # not uses: actions/checkout@main",
      "# uses: actions/checkout@v2",
      "name: build" }

ImageLines ==
    { "FROM golang:1.22 AS build",
      "FROM --platform=linux/amd64 golang:1.22",
      "FROM scratch",
      "    image: nginx:1.25",
      "    image: nginx:latest",
      "# FROM golang:1.22",
      "RUN make" }

\* how a line of the reader ends: "\n", "\r\n", or the end of the reader
LineEnds == {"\n", "\r\n", ""}

\* the readers tried: lines that all end in "\n", lines that all end in "\r\n", and a
\* single line that the end of the reader ends
NextLineEnds(read) ==
    IF read = "" THEN LineEnds
    ELSE IF Len(read) > 1 /\ SubSeq(read, Len(read) - 1, Len(read)) = "\r\n" THEN {"\r\n"}
    ELSE {"\n"}

DirLineEnds == {"\n"}

\* the line ends of the files parsed twice
AgainLineEnds == {"\n", "\r\n", "\r\r\n", ""}

Lines(p) == IF p = "actions" THEN ActionLines ELSE ImageLines

DirLines(p) ==
    IF p = "actions" THEN {"      - uses: actions/checkout@v2", "name: build"}
    ELSE {"    image: nginx:1.25", "RUN make"}

\* how many lines the files listed hold at most, all together
ListMaxLines == 2

\* the lines of the files listed
ListLines(p) ==
    IF p = "actions"
    THEN { "      - uses: actions/checkout@v2",
           "      - uses: \"actions/checkout@v2\"",
           "      - uses: actions/checkout@v2 # not uses: actions/checkout@main",
           "      - uses: actions/checkout@@v2",
           "      - uses: docker://alpine:3.19",
           "# - uses: actions/checkout@v2",
           "name: build" }
    ELSE { "FROM golang:1.22 AS build",
           "FROM --platform=linux/amd64 golang:1.22",
           "    image: golang:1.22",
           "    image: nginx",
           "    image: localhost:5000/app:1.0",
           "  # image: nginx:1.25",
           "RUN make" }

\* ListResult before anything is listed, and nothing returned yet
NoListResult ==
    [set |-> FALSE, ok |-> FALSE, res |-> [Processed |-> <<>>, Entities |-> <<>>], err |-> NoErr]

\* a branch whose name is as long as a commit SHA
BranchLong == "release-candidate-for-the-next-version-1"

\* the lines of the files parsed twice
AgainLines(p) ==
    IF p = "actions" THEN ActionLines \cup {"      - uses: actions/checkout@" \o BranchLong}
    ELSE ImageLines

\* the command has not returned
NoCmd == [set |-> FALSE, ErrOnModified |-> FALSE, err |-> NoErr, status |-> 0]

ShaBranch == "0a1b2c3d4e5f60718293a4b5c6d7e8f901234567"

\* what exists upstream: request path -> response; every other path is not found
TagV2 == "repos/actions/checkout/git/refs/tags/v2"

TagObject == "repos/actions/checkout/git/tags/" \o ShaTag

BranchV2 == "repos/actions/checkout/git/refs/heads/v2"

BranchMain == "repos/actions/checkout/git/refs/heads/main"

NothingUpstream == [p \in {} |-> DoArray]

Worlds ==
    { (TagV2 :> DoObject(ShaCommit, "commit")) @@ (BranchMain :> DoObject(ShaBranch, "commit")),
      (TagV2 :> DoObject(ShaTag, "tag")) @@ (TagObject :> DoObject(ShaCommit, "commit"))
          @@ (BranchMain :> DoObject(ShaBranch, "commit")),
      (TagV2 :> DoArray) @@ (BranchMain :> DoObject(ShaBranch, "commit")),
      (BranchV2 :> DoObject(ShaBranch, "commit")) @@ (BranchMain :> DoObject(ShaBranch, "commit")),
      NothingUpstream }

\* the upstream's answer to GET path
Answer(w, path) == IF path \in DOMAIN w THEN w[path] ELSE DoStatus(StatusNotFound)

\* what restIf.Do can hand back for GET path: the answer, or a failure on the way
DoOutcomes(w, path) == {Answer(w, path), DoTransportFailure, DoStatus(500), DoGarbage}

GetOutcomes == {GetFailure, GetDigest(DigestA)}

\* restIf.Do(ctx, req): once ctx is canceled the request fails with the context's error
Do(ctx, w, path) == IF ctx = "canceled" THEN {DoCanceled} ELSE DoOutcomes(w, path)

\* remote.Get(ref, remote.WithContext(ctx), ...)
RemoteGet(ctx) == IF ctx = "canceled" THEN {GetCanceled} ELSE GetOutcomes

EmptyCache == [k \in {} |-> ""]

NoCall == [NewCall("") EXCEPT !.stage = "idle"]

NoLine == [line |-> "", matches |-> <<>>, mi |-> 0, buf |-> "", flags |-> <<>>]

NoResult == [set |-> FALSE, modified |-> FALSE, content |-> "", err |-> NoErr]

FileResult(modified, content, err) ==
    [set |-> TRUE, modified |-> modified, content |-> content, err |-> err]

\* the goroutines that call Store and Load on a RefCacher directly
Goroutines == {"g1", "g2"}

Keys == {"key1", "key2"}

Values == {"value1", "value2"}

MaxCalls == 3

NoPrevious == [set |-> FALSE, modified |-> FALSE, content |-> ""]

NothingAnswered == [p \in {} |-> DoArray]

AgainMaxLines == 1

\* a goroutine that is in no call of the RefCacher
NoOp == [name |-> "none", key |-> "", value |-> "", ok |-> FALSE, stage |-> "idle", id |-> 0]

\* who uses the RefCacher directly: one caller, or every goroutine at once
CacherUsers(m) ==
    IF m = "store" THEN {"g1"} ELSE IF m = "concurrent store" THEN Goroutines ELSE {}

\* contentBuilder.String(): every line written with its "\n"
RECURSIVE Content(_)
Content(lines) == IF lines = <<>> THEN "" ELSE Head(lines) \o "\n" \o Content(Tail(lines))

VARIABLES
    mode,       \* "file": ParseFile on one reader; "dir": ParsePathInFS over Tasks
    parser,     \* "actions" or "image": the parser the Replacer was built with
    cfg,        \* the Replacer's config
    cacheOn,    \* FALSE after WithCacheDisabled
    cache,      \* the parser's RefCacher: key -> digest
    upstream,   \* what exists upstream: request path -> response
    ctx,        \* the caller's context: "live" or "canceled"
    pc,         \* per task: where its goroutine stands
    reader,     \* per task: the bytes the scanner has consumed from the file
    input,      \* per task: the lines the scanner has handed out
    output,     \* per task: the lines written to contentBuilder
    cur,        \* per task: the line under ReplaceAllStringFunc
    call,       \* per task: the call of parser.Replace in progress
    modified,   \* per task: the modified flag
    done,       \* per task, per written line: which matches resolved
    errs,       \* per task: whether Replace has returned a skip / another error
    calls,      \* per task: the calls of parser.Replace that have returned, in order
    result,     \* per task: what parseAndReplaceReferencesInFile returned
    crashed,    \* the process died of a panic
    mu,         \* parsePathInFS's mutex: the task holding it, or ""
    res,        \* parsePathInFS's ReplaceResult
    egErr,      \* the errgroup's first error
    exits,      \* the non-nil errors the tasks returned, in the order they returned
    dirResult,  \* what parsePathInFS returned
    cacher,     \* the implementation behind the RefCacher: "refCacher" or "unsafeCacher"
    op,         \* per goroutine using the RefCacher directly: its call of Store or Load
    history,    \* the calls of Store and Load made directly, in the order they were made
    previous,   \* what an earlier ParseFile returned, once its content is being parsed again
    answered,   \* when a file is parsed twice: the answer each request has got so far
    found,      \* per task: the set listReferencesInFile has filled so far
    listed,     \* listReferencesInFS's res.Processed and its shared set found
    listResult, \* what listReferencesInFS returned
    relisted,   \* what ListPathInFS returned when the same directory was listed once more
    cmd         \* the command run on a directory: its flag, the error of RunE, the exit status

vars == <<mode, parser, cfg, cacheOn, cache, upstream, ctx, pc, reader, input, output, cur, call,
          modified, done, errs, calls, result, crashed, mu, res, egErr, exits, dirResult,
          cacher, op, history, previous, answered, found, listed, listResult,
          relisted, cmd>>

storeVars == <<cacher, op, history>>

againVars == <<previous, answered>>

listVars == <<found, listed, listResult>>

laterVars == <<relisted, cmd>>

dirVars == <<mu, res, egErr, exits, dirResult>>

setup == <<mode, parser, cfg, cacheOn, upstream, ctx>>

NoDirResult == [set |-> FALSE, ok |-> FALSE, res |-> [Processed |-> <<>>, Modified |-> EmptyCache], err |-> NoErr]

\* the state of a Replacer made with one of the configurations, before any call
InitWith(configs) ==
    /\ parser \in {"actions", "image"}
    /\ cfg \in configs
    /\ cacheOn \in BOOLEAN
    /\ upstream \in (IF parser = "actions" THEN Worlds ELSE {NothingUpstream})
    /\ ctx = "live"
    /\ cache = EmptyCache
    /\ reader = [t \in Tasks |-> ""]
    /\ input = [t \in Tasks |-> <<>>]
    /\ output = [t \in Tasks |-> <<>>]
    /\ cur = [t \in Tasks |-> NoLine]
    /\ call = [t \in Tasks |-> NoCall]
    /\ modified = [t \in Tasks |-> FALSE]
    /\ done = [t \in Tasks |-> <<>>]
    /\ errs = [t \in Tasks |-> [skip |-> FALSE, hard |-> FALSE, canceled |-> FALSE]]
    /\ calls = [t \in Tasks |-> <<>>]
    /\ result = [t \in Tasks |-> NoResult]
    /\ crashed = FALSE
    /\ mu = ""
    /\ res = [Processed |-> <<>>, Modified |-> EmptyCache]
    /\ egErr = NoErr
    /\ exits = <<>>
    /\ dirResult = NoDirResult
    /\ cacher = "refCacher"
    /\ op = [g \in Goroutines |-> NoOp]
    /\ history = <<>>
    /\ previous = NoPrevious
    /\ answered = NothingAnswered
    /\ found = [t \in Tasks |-> {}]
    /\ listed = [Processed |-> <<>>, found |-> {}]
    /\ listResult = NoListResult
    /\ relisted = NoListResult
    /\ cmd = NoCmd

InitCommon == InitWith(Configs)

\* ParseFile(ctx, f) has been called
Init ==
    /\ mode = "file"
    /\ pc = [t \in Tasks |-> IF t = FileTask THEN "scan" ELSE "idle"]
    /\ InitCommon

\* ParsePathInFS(ctx, bfs, base) has been called
InitDir ==
    /\ mode = "dir"
    /\ pc = [t \in Tasks |-> "idle"]
    /\ InitCommon

(***************************************************************************)
(* parseAndReplaceReferencesInFile, one step per scanner read, per call of *)
(* parser.Replace, per network request and per return of the callback.     *)
(***************************************************************************)
MatchText(c) == SubSeq(c.line, c.matches[c.mi][1], c.matches[c.mi][2])

\* the text between the end of match i (or the line's start) and the next match (or the end)
Gap(c, i) ==
    LET from == IF i = 0 THEN 1 ELSE c.matches[i][2] + 1
        to == IF i = Len(c.matches) THEN Len(c.line) ELSE c.matches[i + 1][1] - 1
    IN SubSeq(c.line, from, to)

\* the upstream does not change while a file is parsed twice: a request made before gets
\* the answer it got then
Reply(path, fresh) == IF path \in DOMAIN answered THEN {answered[path]} ELSE fresh

Remember(path, d) == answered' = IF mode = "twice" THEN (path :> d) @@ answered ELSE answered

\* how many lines the files tried have at most
LineLimit(m) == IF m = "dir" THEN DirMaxLines ELSE IF m = "twice" THEN AgainMaxLines ELSE MaxLines

\* what is left to read of the content being parsed again
Unread(t) == SubSeq(previous.content, Len(reader[t]) + 1, Len(previous.content))

\* the bytes the reader may hold next, up to the end of a line or of the reader
NextBytes(t) ==
    IF previous.set THEN (IF Unread(t) = "" THEN {} ELSE {Unread(t)})
    ELSE IF mode = "dir" THEN {text \o end : text \in DirLines(parser), end \in DirLineEnds}
    ELSE IF mode = "twice"
    THEN {text \o end : text \in AgainLines(parser), end \in AgainLineEnds}
    ELSE {text \o end : text \in Lines(parser), end \in NextLineEnds(reader[t])}

\* a variant of TaskExit in which the errgroup keeps the last error instead of the first
TaskExitLastWins(t, err) ==
    /\ pc' = [pc EXCEPT ![t] = "done"]
    /\ egErr' = IF mode \in {"dir", "list"} /\ err # NoErr THEN err ELSE egErr
    /\ exits' = IF mode \in {"dir", "list"} /\ err # NoErr THEN Append(exits, err) ELSE exits

\* the task's function returns err to the errgroup, or nil
TaskExit(t, err) ==
    /\ pc' = [pc EXCEPT ![t] = "done"]
    /\ egErr' = IF mode \in {"dir", "list"} /\ err # NoErr /\ egErr = NoErr THEN err ELSE egErr
    /\ exits' = IF mode \in {"dir", "list"} /\ err # NoErr THEN Append(exits, err) ELSE exits

\* scanner.Scan() hands out a line: a comment or a line without a match is written as it is
ReadLine(t) ==
    /\ ~crashed
    /\ pc[t] = "scan"
    /\ Len(input[t]) < LineLimit(mode)
    /\ IF reader[t] = "" THEN TRUE ELSE Ch(reader[t], Len(reader[t])) = "\n"
    /\ \E bytes \in NextBytes(t) :
       \E scan \in {ScanLines(bytes)} :
       \E line \in {scan.token} :
       \E matches \in {IF IsComment(line) THEN <<>> ELSE FindAll(parser, line)} :
       \E c \in {[line |-> line, matches |-> matches, mi |-> 1, buf |-> "", flags |-> <<>>]} :
          /\ reader' = [reader EXCEPT ![t] = @ \o SubSeq(bytes, 1, scan.advance)]
          /\ input' = [input EXCEPT ![t] = Append(@, line)]
          /\ IF matches = <<>>
             THEN /\ output' = [output EXCEPT ![t] = Append(@, line)]
                  /\ done' = [done EXCEPT ![t] = Append(@, <<>>)]
                  /\ UNCHANGED <<cur, pc>>
             ELSE /\ cur' = [cur EXCEPT ![t] = [c EXCEPT !.buf = Gap(c, 0)]]
                  /\ pc' = [pc EXCEPT ![t] = "replace"]
                  /\ UNCHANGED <<output, done>>
    /\ UNCHANGED <<setup, storeVars, laterVars, listVars, againVars, cache, call, modified, errs, calls, result, crashed, dirVars>>

\* a call has advanced to c: its cache.Store, a panic, or the next place to wait
Advance(t, c) ==
    /\ call' = [call EXCEPT ![t] = c]
    /\ cache' = IF c.stage = "returned" /\ c.stored /\ ~c.hit
                THEN (c.key :> c.sum) @@ cache ELSE cache
    /\ crashed' = (c.stage = "panic")
    /\ pc' = [pc EXCEPT ![t] = IF c.stage = "returned" THEN "returned"
                                ELSE IF c.stage = "panic" THEN "panic" ELSE "lookup"]
    /\ UNCHANGED <<setup, storeVars, laterVars, listVars, previous, reader, input, output, cur, modified, done, errs,
                   calls, result, dirVars>>

\* the callback calls parser.Replace(ctx, matchedLine, rest, cfg)
BeginReplace(t) ==
    /\ ~crashed
    /\ pc[t] = "replace"
    /\ \E matchedLine \in {MatchText(cur[t])} :
       \E c \in {ParserReplace(parser, cfg, cacheOn, cache, matchedLine)} :
          Advance(t, c) /\ UNCHANGED answered

\* getCheckSumForTag: GET repos/<owner>/<repo>/git/refs/tags/<tag>
TagLookup(t) ==
    /\ ~crashed
    /\ pc[t] = "lookup" /\ call[t].stage = "tag"
    /\ \E path \in {tagPath(call[t].owner, call[t].repo, call[t].ref)} :
       \E d \in Reply(path, Do(ctx, upstream, path)) :
       \E c0 \in {[call[t] EXCEPT !.reqs = Append(@, path), !.resps = Append(@, d.kind)]} :
       \E c \in {afterTag(cfg, cacheOn, c0, d)} :
          Advance(t, c) /\ Remember(path, d)

\* getCheckSumForTag: GET repos/<owner>/<repo>/git/tags/<sha>
TagDeref(t) ==
    /\ ~crashed
    /\ pc[t] = "lookup" /\ call[t].stage = "deref"
    /\ \E path \in {tagObjectPath(call[t].owner, call[t].repo, call[t].sha)} :
       \E d \in Reply(path, Do(ctx, upstream, path)) :
       \E c0 \in {[call[t] EXCEPT !.reqs = Append(@, path), !.resps = Append(@, d.kind)]} :
       \E c \in {afterDeref(cfg, cacheOn, c0, d)} :
          Advance(t, c) /\ Remember(path, d)

\* getCheckSumForBranch: GET repos/<owner>/<repo>/git/refs/heads/<branch>
BranchLookup(t) ==
    /\ ~crashed
    /\ pc[t] = "lookup" /\ call[t].stage = "branch"
    /\ \E path \in {branchPath(call[t].owner, call[t].repo, call[t].ref)} :
       \E d \in Reply(path, Do(ctx, upstream, path)) :
       \E c0 \in {[call[t] EXCEPT !.reqs = Append(@, path), !.resps = Append(@, d.kind)]} :
       \E c \in {afterBranch(cacheOn, c0, d)} :
          Advance(t, c) /\ Remember(path, d)

\* GetImageDigestFromRef: remote.Get(ref, opts...)
RegistryLookup(t) ==
    /\ ~crashed
    /\ pc[t] = "lookup" /\ call[t].stage = "registry"
    /\ \E path \in {"registry:" \o call[t].key} :
       \E g \in Reply(path, RemoteGet(ctx)) :
       \E c0 \in {[call[t] EXCEPT !.reqs = Append(@, path),
                                  !.resps = Append(@, IF ~g.err THEN "digest"
                                                       ELSE IF g.cause = ErrCanceled
                                                       THEN "canceled" ELSE "failure")]} :
       \E c \in {afterRegistry(cfg, cacheOn, c0, g)} :
          Advance(t, c) /\ Remember(path, g)

\* what is kept of a call of parser.Replace once it has returned: the matched text, the
\* cache key, whether cache.Load answered, whether GetChecksum or remote.Get was gone
\* to, the identifier found and the Ref returned ("" with a nil *EntityRef)
Returned(c) ==
    [matched |-> c.matched, key |-> c.key, hit |-> c.hit,
     looked |-> ~c.hit /\ (c.stored \/ c.reqs # <<>>), sum |-> c.sum,
     ref |-> IF c.ret = NilRef THEN "" ELSE c.ret.Ref]

\* the callback returns its replacement; after the line's last match the line is written
FinishMatch(t) ==
    /\ ~crashed
    /\ pc[t] = "returned"
    /\ \E c \in {cur[t]} :
       \E buf \in {c.buf \o Replacement(call[t]) \o Gap(c, c.mi)} :
       \E flags \in {Append(c.flags, call[t].err = NoErr)} :
          /\ errs' = [errs EXCEPT ![t] =
                        [skip |-> @.skip \/ ErrorsIs(call[t].err, ErrReferenceSkipped),
                         hard |-> @.hard \/ (call[t].err # NoErr
                                             /\ ~ErrorsIs(call[t].err, ErrReferenceSkipped)),
                         canceled |-> @.canceled \/ ErrorsIs(call[t].err, ErrCanceled)]]
          /\ calls' = [calls EXCEPT ![t] = Append(@, Returned(call[t]))]
          /\ call' = [call EXCEPT ![t] = NoCall]
          /\ IF c.mi < Len(c.matches)
             THEN /\ cur' = [cur EXCEPT ![t] = [c EXCEPT !.mi = @ + 1, !.buf = buf, !.flags = flags]]
                  /\ pc' = [pc EXCEPT ![t] = "replace"]
                  /\ UNCHANGED <<output, modified, done>>
             ELSE /\ cur' = [cur EXCEPT ![t] = NoLine]
                  /\ pc' = [pc EXCEPT ![t] = "scan"]
                  /\ output' = [output EXCEPT ![t] = Append(@, buf)]
                  /\ modified' = [modified EXCEPT ![t] = @ \/ buf # c.line]
                  /\ done' = [done EXCEPT ![t] = Append(@, flags)]
    /\ UNCHANGED <<setup, storeVars, laterVars, listVars, againVars, cache, reader, input, result, crashed, dirVars>>

\* a variant of EndOfFile that surfaces, at the end of the scan, an error a match ran into
EndOfFileSurfacing(t) ==
    /\ ~crashed
    /\ pc[t] = "scan"
    /\ IF previous.set THEN reader[t] = previous.content ELSE TRUE
    /\ result' = [result EXCEPT ![t] =
                    IF errs[t].hard THEN FileResult(FALSE, "", <<"resolution failed">>)
                    ELSE FileResult(modified[t], Content(output[t]), NoErr)]
    /\ pc' = [pc EXCEPT ![t] = IF mode = "dir" THEN "merge" ELSE "done"]
    /\ UNCHANGED <<setup, storeVars, laterVars, listVars, againVars, cache, reader, input, output, cur, call, modified, done, errs, calls, crashed, dirVars>>

\* a variant of EndOfFile that takes the file for modified when the content it returns
\* differs from the bytes it read
EndOfFileComparesContent(t) ==
    /\ ~crashed
    /\ pc[t] = "scan"
    /\ IF previous.set THEN reader[t] = previous.content ELSE TRUE
    /\ result' = [result EXCEPT ![t] = FileResult(Content(output[t]) # reader[t], Content(output[t]), NoErr)]
    /\ pc' = [pc EXCEPT ![t] = IF mode = "dir" THEN "merge" ELSE "done"]
    /\ UNCHANGED <<setup, storeVars, laterVars, listVars, againVars, cache, reader, input, output, cur, call, modified, done, errs, calls, crashed, dirVars>>

\* scanner.Scan() is over and scanner.Err() is nil: (modified, content, nil)
EndOfFile(t) ==
    /\ ~crashed
    /\ pc[t] = "scan"
    /\ IF previous.set THEN reader[t] = previous.content ELSE TRUE
    /\ result' = [result EXCEPT ![t] = FileResult(modified[t], Content(output[t]), NoErr)]
    /\ pc' = [pc EXCEPT ![t] = IF mode = "dir" THEN "merge" ELSE "done"]
    /\ UNCHANGED <<setup, storeVars, laterVars, listVars, againVars, cache, reader, input, output, cur, call, modified, done, errs, calls, crashed, dirVars>>

\* scanner.Scan() is over and scanner.Err() is not nil: (false, "", err)
ScanError(t) ==
    /\ ~crashed
    /\ pc[t] = "scan"
    /\ result' = [result EXCEPT ![t] = FileResult(FALSE, "", <<"scan failed">>)]
    /\ TaskExit(t, Wrap("failed to modify references", <<"scan failed">>))
    /\ UNCHANGED <<setup, storeVars, laterVars, listVars, againVars, cache, reader, input, output, cur, call, modified, done, errs, calls, crashed, mu, res, dirResult>>

(***************************************************************************)
(* parsePathInFS: one goroutine per file, an errgroup and a mutex.         *)
(***************************************************************************)
\* traverse.YamlDockerfiles reaches the file: eg.Go(func() error {...})
Spawn(t) ==
    /\ ~crashed
    /\ mode \in {"dir", "list"}
    /\ pc[t] = "idle"
    /\ pc' = [pc EXCEPT ![t] = "open"]
    /\ UNCHANGED <<setup, storeVars, laterVars, listVars, againVars, cache, reader, input, output, cur, call, modified, done, errs, calls, result, crashed, dirVars>>

\* bfs.Open(path)
OpenFile(t) ==
    /\ ~crashed
    /\ pc[t] = "open"
    /\ \E ok \in BOOLEAN :
          IF ok
          THEN pc' = [pc EXCEPT ![t] = "scan"] /\ UNCHANGED <<egErr, exits>>
          ELSE TaskExit(t, Wrap("failed to open file", <<"open failed">>))
    /\ UNCHANGED <<setup, storeVars, laterVars, listVars, againVars, cache, reader, input, output, cur, call, modified, done, errs, calls, result, crashed, mu, res, dirResult>>

\* a variant of Lock that does not wait for the mutex to be free
LockWithoutWaiting(t) ==
    /\ ~crashed
    /\ pc[t] = "merge"
    /\ mu' = t
    /\ pc' = [pc EXCEPT ![t] = "locked"]
    /\ UNCHANGED <<setup, storeVars, laterVars, listVars, againVars, cache, reader, input, output, cur, call, modified, done, errs, calls, result, crashed, res, egErr, exits, dirResult>>

\* mu.Lock()
Lock(t) ==
    /\ ~crashed
    /\ pc[t] = "merge"
    /\ mu = ""
    /\ mu' = t
    /\ pc' = [pc EXCEPT ![t] = "locked"]
    /\ UNCHANGED <<setup, storeVars, laterVars, listVars, againVars, cache, reader, input, output, cur, call, modified, done, errs, calls, result, crashed, res, egErr, exits, dirResult>>

\* a variant of Merge that stores the content of every file, modified or not
MergeStoresEveryFile(t) ==
    /\ ~crashed
    /\ pc[t] = "locked"
    /\ res' = [Processed |-> Append(res.Processed, t),
               Modified |-> (t :> result[t].content) @@ res.Modified]
    /\ mu' = ""
    /\ TaskExit(t, NoErr)
    /\ UNCHANGED <<setup, storeVars, laterVars, listVars, againVars, cache, reader, input, output, cur, call, modified, done, errs, calls, result, crashed, dirResult>>

\* res.Processed = append(...); res.Modified[path] = updatedFile; mu.Unlock(); return nil
Merge(t) ==
    /\ ~crashed
    /\ pc[t] = "locked"
    /\ res' = [Processed |-> Append(res.Processed, t),
               Modified |-> IF result[t].modified
                            THEN (t :> result[t].content) @@ res.Modified
                            ELSE res.Modified]
    /\ mu' = ""
    /\ TaskExit(t, NoErr)
    /\ UNCHANGED <<setup, storeVars, laterVars, listVars, againVars, cache, reader, input, output, cur, call, modified, done, errs, calls, result, crashed, dirResult>>

\* a variant of Wait that returns as soon as one goroutine has returned an error
WaitUntilFirstError ==
    /\ ~crashed
    /\ mode = "dir"
    /\ ~dirResult.set
    /\ IF egErr # NoErr THEN TRUE ELSE \A t \in Tasks : pc[t] = "done"
    /\ dirResult' = IF egErr # NoErr
                    THEN [set |-> TRUE, ok |-> FALSE,
                          res |-> [Processed |-> <<>>, Modified |-> EmptyCache], err |-> egErr]
                    ELSE [set |-> TRUE, ok |-> TRUE, res |-> res, err |-> NoErr]
    /\ UNCHANGED <<setup, storeVars, laterVars, listVars, againVars, cache, pc, reader, input, output, cur, call, modified, done, errs, calls, result, crashed, mu, res, egErr, exits>>

\* eg.Wait() returns once every goroutine has: (nil, err) or (&res, nil)
Wait ==
    /\ ~crashed
    /\ mode = "dir"
    /\ ~dirResult.set
    /\ \A t \in Tasks : pc[t] = "done"
    /\ dirResult' = IF egErr # NoErr
                    THEN [set |-> TRUE, ok |-> FALSE,
                          res |-> [Processed |-> <<>>, Modified |-> EmptyCache], err |-> egErr]
                    ELSE [set |-> TRUE, ok |-> TRUE, res |-> res, err |-> NoErr]
    /\ UNCHANGED <<setup, storeVars, laterVars, listVars, againVars, cache, pc, reader, input, output, cur, call, modified, done, errs, calls, result, crashed, mu, res, egErr, exits>>

\* the caller cancels the context it handed to ParsePathInFS while the batch runs
Cancel ==
    /\ ~crashed
    /\ mode = "dir"
    /\ ctx = "live"
    /\ ~dirResult.set
    /\ ctx' = "canceled"
    /\ UNCHANGED <<mode, parser, cfg, cacheOn, upstream, storeVars, laterVars, listVars, againVars, cache, pc, reader, input,
                   output, cur, call, modified, done, errs, calls, result, crashed, dirVars>>

(***************************************************************************)
(* The command line: replaceCmd on a directory, and the exit status that   *)
(* Execute makes of the error it returns.                                  *)
(***************************************************************************)
\* the Helpers NewHelper can build from the flags -n, -q and -e
Helpers == [DryRun : BOOLEAN, Quiet : BOOLEAN, ErrOnModified : BOOLEAN]

\* Helper.CheckModified: an error when files were modified and -e was given
CheckModified(helper, modifiedFiles) ==
    IF DOMAIN modifiedFiles # {} /\ helper.ErrOnModified
    THEN <<"files were modified">> ELSE NoErr

\* the errors Helper.ProcessOutput can return: nil, or for a modified file that is
\* written the failure to open it or to write it
ProcessOutput(helper, processed, modifiedFiles) ==
    IF DOMAIN modifiedFiles = {} THEN {NoErr}
    ELSE IF helper.Quiet THEN {NoErr}
    ELSE IF helper.DryRun THEN {NoErr, <<"failed to write to file">>}
    ELSE {NoErr, <<"failed to open file">>, <<"failed to write to file">>}

\* a variant of replaceCmd's path branch that asks CheckModified once the output is written
replaceCmdChecksModified(helper, ret) ==
    IF ~ret.ok THEN {ret.err}
    ELSE {IF err = NoErr THEN CheckModified(helper, ret.res.Modified) ELSE err :
             err \in ProcessOutput(helper, ret.res.Processed, ret.res.Modified)}

\* the errors replaceCmd can return for a path, ParsePath having returned ret
replaceCmd(helper, ret) ==
    IF ~ret.ok THEN {ret.err}
    ELSE ProcessOutput(helper, ret.res.Processed, ret.res.Modified)

\* the command runs to its end: ParsePath has returned, RunE returns replaceCmd's error,
\* and Execute exits with status 1 on an error, else the process ends with status 0
ReplaceCmd ==
    /\ ~crashed
    /\ mode = "dir"
    /\ dirResult.set
    /\ ~cmd.set
    /\ \E helper \in Helpers :
       \E err \in replaceCmd(helper, dirResult) :
          cmd' = [set |-> TRUE, ErrOnModified |-> helper.ErrOnModified, err |-> err,
                  status |-> IF err # NoErr THEN 1 ELSE 0]
    /\ UNCHANGED <<setup, storeVars, againVars, listVars, relisted, cache, pc, reader, input,
                   output, cur, call, modified, done, errs, calls, result, crashed, dirVars>>

FileStep(t) ==
    \/ ReadLine(t)
    \/ BeginReplace(t)
    \/ TagLookup(t)
    \/ TagDeref(t)
    \/ BranchLookup(t)
    \/ RegistryLookup(t)
    \/ FinishMatch(t)
    \/ EndOfFile(t)
    \/ ScanError(t)

Next == FileStep(FileTask)

NextDir ==
    \/ \E t \in Tasks : Spawn(t)
    \/ \E t \in Tasks : OpenFile(t)
    \/ \E t \in Tasks : FileStep(t)
    \/ \E t \in Tasks : Lock(t)
    \/ \E t \in Tasks : Merge(t)
    \/ Wait
    \/ Cancel
    \/ ReplaceCmd

Spec == Init /\ [][Next]_vars

\* ParseFile(ctx, f) has been called on a Replacer made with the default configuration
InitDefault ==
    /\ mode = "file"
    /\ pc = [t \in Tasks |-> IF t = FileTask THEN "scan" ELSE "idle"]
    /\ InitWith({defaultConfig})

SpecDefault == InitDefault /\ [][Next]_vars

SpecDir == InitDir /\ [][NextDir]_vars

(***************************************************************************)
(* The RefCacher used on its own, as the store package's tests do: calls of *)
(* Store and Load by one caller or by several goroutines at once.  A call  *)
(* is made, takes effect on the map in one step, and returns.              *)
(***************************************************************************)
rewriteVars == <<setup, againVars, listVars, laterVars, pc, reader, input, output, cur, call, modified, done, errs, calls,
                 result, crashed, dirVars>>

\* the indices of the calls of Store that have returned
StoresReturned(h) == {j \in 1..Len(h) : h[j].name = "Store" /\ h[j].done}

\* the goroutine calls cacher.Store(key, value)
CallStore(g) ==
    /\ g \in CacherUsers(mode)
    /\ op[g].stage = "idle"
    /\ Len(history) < MaxCalls
    /\ \E key \in Keys, value \in Values :
          /\ op' = [op EXCEPT ![g] = [name |-> "Store", key |-> key, value |-> value,
                                      ok |-> FALSE, stage |-> "called", id |-> Len(history) + 1]]
          /\ history' = Append(history, [name |-> "Store", key |-> key, value |-> value,
                                         ok |-> FALSE, done |-> FALSE, after |-> {}])
    /\ UNCHANGED <<rewriteVars, cache, cacher>>

\* the goroutine calls cacher.Load(key)
CallLoad(g) ==
    /\ g \in CacherUsers(mode)
    /\ op[g].stage = "idle"
    /\ Len(history) < MaxCalls
    /\ \E key \in Keys :
          /\ op' = [op EXCEPT ![g] = [name |-> "Load", key |-> key, value |-> "",
                                      ok |-> FALSE, stage |-> "called", id |-> Len(history) + 1]]
          /\ history' = Append(history, [name |-> "Load", key |-> key, value |-> "",
                                         ok |-> FALSE, done |-> FALSE,
                                         after |-> StoresReturned(history)])
    /\ UNCHANGED <<rewriteVars, cache, cacher>>

\* Store's one statement takes effect on the map
MapStore(g) ==
    /\ op[g].stage = "called" /\ op[g].name = "Store"
    /\ cache' = CacherStore(cacher, cache, op[g].key, op[g].value)
    /\ op' = [op EXCEPT ![g].stage = "applied"]
    /\ UNCHANGED <<rewriteVars, cacher, history>>

\* Load's one statement reads the map
MapLoad(g) ==
    /\ op[g].stage = "called" /\ op[g].name = "Load"
    /\ \E r \in {CacherLoad(cacher, cache, op[g].key)} :
          op' = [op EXCEPT ![g].stage = "applied", ![g].value = r.value, ![g].ok = r.ok]
    /\ UNCHANGED <<rewriteVars, cache, cacher, history>>

\* the call returns to the goroutine: nothing for Store, (value, ok) for Load
ReturnCall(g) ==
    /\ op[g].stage = "applied"
    /\ history' = [history EXCEPT ![op[g].id].done = TRUE,
                                  ![op[g].id].value = op[g].value,
                                  ![op[g].id].ok = op[g].ok]
    /\ op' = [op EXCEPT ![g] = NoOp]
    /\ UNCHANGED <<rewriteVars, cache, cacher>>

NextStore ==
    \/ \E g \in Goroutines : CallStore(g)
    \/ \E g \in Goroutines : CallLoad(g)
    \/ \E g \in Goroutines : MapStore(g)
    \/ \E g \in Goroutines : MapLoad(g)
    \/ \E g \in Goroutines : ReturnCall(g)

(***************************************************************************)
(* ParseFile applied to the content an earlier ParseFile returned, by the   *)
(* same Replacer or a new one with the same parser and config.             *)
(***************************************************************************)
ParseAgain ==
    /\ ~crashed
    /\ mode = "twice"
    /\ ~previous.set
    /\ pc[FileTask] = "done"
    /\ result[FileTask].set /\ result[FileTask].err = NoErr
    /\ previous' = [set |-> TRUE, modified |-> result[FileTask].modified,
                    content |-> result[FileTask].content]
    /\ \E sameReplacer \in BOOLEAN : cache' = IF sameReplacer THEN cache ELSE EmptyCache
    /\ pc' = [pc EXCEPT ![FileTask] = "scan"]
    /\ reader' = [reader EXCEPT ![FileTask] = ""]
    /\ input' = [input EXCEPT ![FileTask] = <<>>]
    /\ output' = [output EXCEPT ![FileTask] = <<>>]
    /\ modified' = [modified EXCEPT ![FileTask] = FALSE]
    /\ done' = [done EXCEPT ![FileTask] = <<>>]
    /\ errs' = [errs EXCEPT ![FileTask] = [skip |-> FALSE, hard |-> FALSE, canceled |-> FALSE]]
    /\ calls' = [calls EXCEPT ![FileTask] = <<>>]
    /\ result' = [result EXCEPT ![FileTask] = NoResult]
    /\ UNCHANGED <<setup, storeVars, laterVars, listVars, answered, cur, call, crashed, dirVars>>

NextAgain ==
    \/ FileStep(FileTask)
    \/ ParseAgain

\* ParseFile(ctx, f) has been called on a file that will be parsed twice
InitAgain ==
    /\ mode = "twice"
    /\ pc = [t \in Tasks |-> IF t = FileTask THEN "scan" ELSE "idle"]
    /\ InitCommon

SpecAgain == InitAgain /\ [][NextAgain]_vars

\* no rewrite is going on: the parser's variables stay as a new Replacer has them
InitRewriteIdle ==
    /\ parser = "actions"
    /\ cfg = Config(<<>>, <<>>, "")
    /\ cacheOn = TRUE
    /\ upstream = NothingUpstream
    /\ ctx = "live"
    /\ pc = [t \in Tasks |-> "idle"]
    /\ reader = [t \in Tasks |-> ""]
    /\ input = [t \in Tasks |-> <<>>]
    /\ output = [t \in Tasks |-> <<>>]
    /\ cur = [t \in Tasks |-> NoLine]
    /\ call = [t \in Tasks |-> NoCall]
    /\ modified = [t \in Tasks |-> FALSE]
    /\ done = [t \in Tasks |-> <<>>]
    /\ errs = [t \in Tasks |-> [skip |-> FALSE, hard |-> FALSE, canceled |-> FALSE]]
    /\ calls = [t \in Tasks |-> <<>>]
    /\ result = [t \in Tasks |-> NoResult]
    /\ crashed = FALSE
    /\ mu = ""
    /\ res = [Processed |-> <<>>, Modified |-> EmptyCache]
    /\ egErr = NoErr
    /\ exits = <<>>
    /\ dirResult = NoDirResult
    /\ found = [t \in Tasks |-> {}]
    /\ listed = [Processed |-> <<>>, found |-> {}]
    /\ listResult = NoListResult
    /\ relisted = NoListResult
    /\ cmd = NoCmd

\* NewRefCacher() or NewUnsafeCacher(), used by one caller
InitStore ==
    /\ mode = "store"
    /\ cacher \in {"refCacher", "unsafeCacher"}
    /\ cache = EmptyCache
    /\ op = [g \in Goroutines |-> NoOp]
    /\ history = <<>>
    /\ previous = NoPrevious
    /\ answered = NothingAnswered
    /\ InitRewriteIdle

\* NewRefCacher(), used by several goroutines at once
InitStoreConcurrent ==
    /\ mode = "concurrent store"
    /\ cacher = "refCacher"
    /\ cache = EmptyCache
    /\ op = [g \in Goroutines |-> NoOp]
    /\ history = <<>>
    /\ previous = NoPrevious
    /\ answered = NothingAnswered
    /\ InitRewriteIdle

SpecStore == InitStore /\ [][NextStore]_vars

SpecStoreConcurrent == InitStoreConcurrent /\ [][NextStore]_vars

(***************************************************************************)
(* listReferencesInFS and listReferencesInFile: one goroutine per file, one *)
(* step per scanner read; the goroutine, the opening of the file and the    *)
(* mutex are those of parsePathInFS.                                        *)
(***************************************************************************)
\* scanner.Scan() hands out a line: a comment is passed over, the entity of every other
\* match that converts is added to the file's set
ListLine(t) ==
    /\ mode = "list"
    /\ pc[t] = "scan"
    /\ Cardinality({<<f, i>> \in Tasks \X (1..ListMaxLines) : i <= Len(input[f])}) < ListMaxLines
    /\ \E text \in ListLines(parser) :
       \E scan \in {ScanLines(text \o "\n")} :
          /\ reader' = [reader EXCEPT ![t] = @ \o text \o "\n"]
          /\ input' = [input EXCEPT ![t] = Append(@, scan.token)]
          /\ found' = [found EXCEPT ![t] = @ \cup listLine(parser, scan.token)]
    /\ UNCHANGED <<setup, storeVars, laterVars, againVars, listed, listResult, cache, pc, output, cur, call,
                   modified, done, errs, calls, result, crashed, dirVars>>

\* scanner.Scan() returns false and scanner.Err() is nil: return found, nil
ListEndOfFile(t) ==
    /\ mode = "list"
    /\ pc[t] = "scan"
    /\ pc' = [pc EXCEPT ![t] = "merge"]
    /\ UNCHANGED <<setup, storeVars, laterVars, againVars, listVars, cache, reader, input, output, cur, call,
                   modified, done, errs, calls, result, crashed, dirVars>>

\* scanner.Err() is not nil: the task returns it wrapped, its set is dropped
ListScanError(t) ==
    /\ mode = "list"
    /\ pc[t] = "scan"
    /\ TaskExit(t, Wrap("failed to list references", <<"scan failed">>))
    /\ UNCHANGED <<setup, storeVars, laterVars, againVars, listVars, cache, reader, input, output, cur, call,
                   modified, done, errs, calls, result, crashed, mu, res, dirResult>>

\* res.Processed = append(...); found = found.Union(foundRefs); mu.Unlock(); return nil
ListMerge(t) ==
    /\ mode = "list"
    /\ pc[t] = "locked"
    /\ listed' = [Processed |-> Append(listed.Processed, t),
                  found |-> listed.found \cup found[t]]
    /\ mu' = ""
    /\ TaskExit(t, NoErr)
    /\ UNCHANGED <<setup, storeVars, laterVars, againVars, found, listResult, cache, reader, input, output,
                   cur, call, modified, done, errs, calls, result, crashed, res, dirResult>>

\* eg.Wait() returns once every goroutine has: (nil, err), or the entities of the shared
\* set as a slice sorted by Name
ListWait ==
    /\ mode = "list"
    /\ ~listResult.set
    /\ \A t \in Tasks : pc[t] = "done"
    /\ IF egErr # NoErr
       THEN listResult' = [set |-> TRUE, ok |-> FALSE,
                           res |-> [Processed |-> <<>>, Entities |-> <<>>], err |-> egErr]
       ELSE \E slice \in ToSlice(listed.found) :
            \E Entities \in SortSlice(slice) :
               listResult' = [set |-> TRUE, ok |-> TRUE,
                              res |-> [Processed |-> listed.Processed, Entities |-> Entities],
                              err |-> NoErr]
    /\ UNCHANGED <<setup, storeVars, laterVars, againVars, found, listed, cache, pc, reader, input, output,
                   cur, call, modified, done, errs, calls, result, crashed, dirVars>>

\* ListPathInFS once more on the same directory, from its call to its return, without a
\* failure: the files are read again, in some order, and the shared set is sliced and
\* sorted again
ListAgain ==
    /\ mode = "list"
    /\ listResult.ok
    /\ ~relisted.set
    /\ \E set \in {UNION {listLine(parser, input[t][i]) :
                             <<t, i>> \in {p \in Tasks \X (1..ListMaxLines) : p[2] <= Len(input[p[1]])}}} :
       \E Processed \in ToSlice(Tasks) :
       \E slice \in ToSlice(set) :
       \E Entities \in SortSlice(slice) :
          relisted' = [set |-> TRUE, ok |-> TRUE,
                       res |-> [Processed |-> Processed, Entities |-> Entities], err |-> NoErr]
    /\ UNCHANGED <<setup, storeVars, againVars, listVars, cmd, cache, pc, reader, input, output,
                   cur, call, modified, done, errs, calls, result, crashed, dirVars>>

NextList ==
    \/ \E t \in Tasks : Spawn(t)
    \/ \E t \in Tasks : OpenFile(t)
    \/ \E t \in Tasks : ListLine(t)
    \/ \E t \in Tasks : ListEndOfFile(t)
    \/ \E t \in Tasks : ListScanError(t)
    \/ \E t \in Tasks : Lock(t)
    \/ \E t \in Tasks : ListMerge(t)
    \/ ListWait
    \/ ListAgain

\* ListPathInFS(bfs, base) has been called: nothing but the parser matters to it
InitList ==
    /\ mode = "list"
    /\ cfg = Config(<<>>, <<>>, "")
    /\ cacheOn = TRUE
    /\ upstream = NothingUpstream
    /\ pc = [t \in Tasks |-> "idle"]
    /\ InitCommon

SpecList == InitList /\ [][NextList]_vars

\* a Replacer used once: ParseFile on a reader, or ListPathInFS on a directory
InitParseOrList == Init \/ InitList

NextParseOrList == (mode = "file" /\ Next) \/ NextList

SpecParseOrList == InitParseOrList /\ [][NextParseOrList]_vars

(***************************************************************************)
(* The parser used on its own: a sequence of calls of Parser.Replace on one *)
(* parser, each with its matched text and its config, against an upstream   *)
(* that gives the same answer to the same request.                          *)
(***************************************************************************)
MaxReplaceCalls == 2

DigestArm64 == "sha256:2f1e6c3a9d4b5e7f80112233445566778899aabbccddeeff0011223344556677"

\* the platform constraints the calls are made with
CallPlatforms == {"", "linux/amd64", "linux/arm64"}

\* the configs handed to Replace: they differ in the platform only
CallConfigs == {Config(<<>>, <<>>, platform) : platform \in CallPlatforms}

\* the matched texts handed to Replace: every match of the parser's regex in the lines
CallTexts(p) ==
    UNION {{SubSeq(line, m[1], m[2]) : m \in {FindAll(p, line)[i] : i \in 1..Len(FindAll(p, line))}}
           : line \in Lines(p)}

\* remote.Get(ref, remote.WithPlatform(...)) on a registry that does not change: the
\* image index has one digest, its linux/arm64 manifest another, and nginx is missing
RegistryAnswer(imageRef, platform) ==
    IF Contains(imageRef, "nginx") THEN GetFailure
    ELSE IF platform = "linux/arm64" THEN GetDigest(DigestArm64)
    ELSE GetDigest(DigestA)

\* the call c carried on to its return: every request it makes is answered by the
\* upstream w and the registry
RECURSIVE Resolve(_, _, _, _)
Resolve(config, cached, w, c) ==
    IF c.stage = "tag"
    THEN With(tagPath(c.owner, c.repo, c.ref), LAMBDA path :
         With(Answer(w, path), LAMBDA d :
             Resolve(config, cached, w,
                     afterTag(config, cached,
                              [c EXCEPT !.reqs = Append(@, path), !.resps = Append(@, d.kind)], d))))
    ELSE IF c.stage = "deref"
    THEN With(tagObjectPath(c.owner, c.repo, c.sha), LAMBDA path :
         With(Answer(w, path), LAMBDA d :
             Resolve(config, cached, w,
                     afterDeref(config, cached,
                                [c EXCEPT !.reqs = Append(@, path), !.resps = Append(@, d.kind)], d))))
    ELSE IF c.stage = "branch"
    THEN With(branchPath(c.owner, c.repo, c.ref), LAMBDA path :
         With(Answer(w, path), LAMBDA d :
             Resolve(config, cached, w,
                     afterBranch(cached,
                                 [c EXCEPT !.reqs = Append(@, path), !.resps = Append(@, d.kind)], d))))
    ELSE IF c.stage = "registry"
    THEN With(RegistryAnswer(c.key, config.Platform), LAMBDA g :
             Resolve(config, cached, w,
                     afterRegistry(config, cached,
                                   [c EXCEPT !.reqs = Append(@, "registry:" \o c.key),
                                             !.resps = Append(@, IF g.err THEN "failure" ELSE "digest")],
                                   g)))
    ELSE c

\* parser.Replace(ctx, matchedLine, restIf, cfg), from the call to its return
CallReplace ==
    /\ mode = "calls"
    /\ Len(calls[FileTask]) < MaxReplaceCalls
    /\ \E matchedLine \in CallTexts(parser) :
       \E config \in CallConfigs :
       \E c \in {Resolve(config, cacheOn, upstream,
                         ParserReplace(parser, config, cacheOn, cache, matchedLine))} :
          /\ cfg' = config
          /\ call' = [call EXCEPT ![FileTask] = c]
          /\ cache' = IF c.stage = "returned" /\ c.stored /\ ~c.hit
                      THEN (c.key :> c.sum) @@ cache ELSE cache
          /\ calls' = [calls EXCEPT ![FileTask] = Append(@, Returned(c))]
    /\ UNCHANGED <<mode, parser, cacheOn, upstream, ctx, storeVars, laterVars, listVars, againVars, pc, reader, input,
                   output, cur, modified, done, errs, result, crashed, dirVars>>

\* a parser has been made with New(), with its cache or after SetCache(nil)
InitCalls ==
    /\ mode = "calls"
    /\ pc = [t \in Tasks |-> "idle"]
    /\ InitWith(CallConfigs)

SpecCalls == InitCalls /\ [][CallReplace]_vars

RECURSIVE KeptFrom(_, _, _, _, _)
KeptFrom(line, matches, flags, k, from) ==
    IF k > Len(flags) THEN <<SubSeq(line, from, Len(line))>>
    ELSE IF flags[k]
         THEN <<SubSeq(line, from, matches[k][1] - 1)>>
                  \o KeptFrom(line, matches, flags, k + 1, matches[k][2] + 1)
         ELSE KeptFrom(line, matches, flags, k + 1, from)

Kept(line, flags) == KeptFrom(line, FindAll(parser, line), flags, 1, 1)

\* out is segs[k], ..., segs[Len(segs)] in this order from pos on, with any text between
\* two of them, and ends with the last
RECURSIVE FitsFrom(_, _, _, _)
FitsFrom(out, pos, segs, k) ==
    IF k = Len(segs)
    THEN /\ pos <= Len(out) - Len(segs[k]) + 1
         /\ SubSeq(out, Len(out) - Len(segs[k]) + 1, Len(out)) = segs[k]
    ELSE \E p \in pos..(Len(out) + 1) :
            HasAt(out, p, segs[k]) /\ FitsFrom(out, p + Len(segs[k]), segs, k + 1)

\* out differs from the text the segments were cut from only where it was cut
Fits(out, segs) ==
    IF Len(segs) = 1 THEN out = segs[1]
    ELSE HasPrefix(out, segs[1]) /\ FitsFrom(out, Len(segs[1]) + 1, segs, 2)

\* how each of the lines ends in the bytes they were read from
RECURSIVE LineEndsOf(_, _)
LineEndsOf(data, lines) ==
    IF lines = <<>> THEN <<>>
    ELSE LET rest == SubSeq(data, Len(Head(lines)) + 1, Len(data))
             end == IF HasPrefix(rest, "\r\n") THEN "\r\n"
                    ELSE IF HasPrefix(rest, "\n") THEN "\n" ELSE ""
         IN <<end>> \o LineEndsOf(SubSeq(rest, Len(end) + 1, Len(rest)), Tail(lines))

RECURSIVE Rejoin(_, _)
Rejoin(lines, ends) ==
    IF lines = <<>> THEN ""
    ELSE Head(lines) \o Head(ends) \o Rejoin(Tail(lines), Tail(ends))

\* C3: the content a whole-file rewrite returns differs from the input only at the
\* matches that were resolved: the lines come out in their order, a line none of whose
\* matches resolved (or that has none) comes out byte for byte, a line with resolved
\* matches keeps the text around them, and nothing else of the input changes.
C3_DiffersOnlyAtResolvedMatches ==
    /\ Len(output[FileTask]) <= Len(input[FileTask])
    /\ \A i \in 1..Len(output[FileTask]) :
          Fits(output[FileTask][i], Kept(input[FileTask][i], done[FileTask][i]))
    /\ result[FileTask].set /\ result[FileTask].err = NoErr =>
          /\ Len(output[FileTask]) = Len(input[FileTask])
          /\ result[FileTask].content
                = Rejoin(output[FileTask], LineEndsOf(reader[FileTask], input[FileTask]))

\* C3, a failing input reached: a rewrite that resolved nothing and reported no
\* modification has returned a content that is not the input
C3_Witness ==
    /\ result[FileTask].set /\ result[FileTask].err = NoErr
    /\ ~result[FileTask].modified
    /\ \A i \in 1..Len(done[FileTask]) : \A k \in 1..Len(done[FileTask][i]) : ~done[FileTask][i][k]
    /\ result[FileTask].content # reader[FileTask]

\* C3, what does hold: the text of the lines differs only at resolved matches, and
\* the content is these lines, each followed by "\n" whatever ended it in the input
C3_LineTextDiffersOnlyAtResolvedMatches ==
    /\ Len(output[FileTask]) <= Len(input[FileTask])
    /\ reader[FileTask] = Rejoin(input[FileTask], LineEndsOf(reader[FileTask], input[FileTask]))
    /\ \A i \in 1..Len(output[FileTask]) :
          Fits(output[FileTask][i], Kept(input[FileTask][i], done[FileTask][i]))
    /\ result[FileTask].set /\ result[FileTask].err = NoErr =>
          /\ Len(output[FileTask]) = Len(input[FileTask])
          /\ result[FileTask].content = Content(output[FileTask])

\* C3, a state the line-level property is about: a line with a resolved and an
\* unresolved match and a line whose only match was skipped have been written
C3_LineTextWitness ==
    /\ result[FileTask].set /\ result[FileTask].err = NoErr
    /\ \E i, j \in 1..Len(output[FileTask]) :
          /\ done[FileTask][i] = <<TRUE, FALSE>>
          /\ output[FileTask][i] # input[FileTask][i]
          /\ done[FileTask][j] = <<FALSE>>
          /\ output[FileTask][j] = input[FileTask][j]

(***************************************************************************)
(* Properties of a malformed match inside a whole-file rewrite.            *)
(***************************************************************************)
CountOf(s, ch) == Cardinality({i \in 1..Len(s) : Ch(s, i) = ch})

\* the matched text is an action reference whose "@"-delimited segments are not two, or
\* an image reference to be resolved for a platform that is not os/arch
MalformedMatch(text) ==
    \/ parser = "actions" /\ ~Contains(text, "docker://") /\ CountOf(text, "@") # 1
    \/ /\ parser = "image" \/ Contains(text, "docker://")
       /\ cfg.Platform # "" /\ CountOf(cfg.Platform, "/") # 1

\* the line under rewrite after its current match has been put back as it was
PutBack(c) == c.buf \o MatchText(c) \o Gap(c, c.mi)

\* C4: when a matched reference is malformed, the callback's return leaves the match as
\* it was, the rewrite goes on with the next match or line, nothing is returned at this
\* point, the match does not set the modified flag, and the file operation ends in an
\* error only if reading the input fails.
C4_MalformedMatchLeftUntouched ==
    /\ [][(/\ pc[FileTask] = "returned"
           /\ MalformedMatch(MatchText(cur[FileTask]))
           /\ pc'[FileTask] # "returned")
          => /\ result' = result
             /\ ~crashed'
             /\ IF cur[FileTask].mi < Len(cur[FileTask].matches)
                THEN /\ pc'[FileTask] = "replace"
                     /\ cur'[FileTask].mi = cur[FileTask].mi + 1
                     /\ cur'[FileTask].buf = PutBack(cur[FileTask])
                     /\ modified' = modified
                     /\ output' = output
                ELSE /\ pc'[FileTask] = "scan"
                     /\ output'[FileTask] = Append(output[FileTask], PutBack(cur[FileTask]))
                     /\ modified'[FileTask] =>
                           \/ modified[FileTask]
                           \/ \E k \in 1..Len(cur[FileTask].flags) : cur[FileTask].flags[k]]_vars
    /\ [](result[FileTask].set /\ result[FileTask].err # NoErr
             => result[FileTask].err = <<"scan failed">> /\ pc[FileTask] = "done")

\* C4: a file whose first line holds a malformed match has been rewritten to the end:
\* that line is as it was, a second line was processed, no error, no modification
C4_Witness ==
    /\ parser = "actions"
    /\ result[FileTask].set /\ result[FileTask].err = NoErr
    /\ ~result[FileTask].modified
    /\ Len(output[FileTask]) = 2
    /\ done[FileTask][1] = <<FALSE>>
    /\ \E m \in {FindAll(parser, input[FileTask][1])} :
          Len(m) = 1 /\ MalformedMatch(SubSeq(input[FileTask][1], m[1][1], m[1][2]))
    /\ output[FileTask][1] = input[FileTask][1]
    /\ done[FileTask][2] # <<>>

(***************************************************************************)
(* Properties of parser.Replace: exclusion.                                *)
(***************************************************************************)
\* the image reference of a matched FROM or image: text
ImageRefOf(text) ==
    IF HasPrefix(text, prefixFROM) THEN getRefFromDockerfileFROM(text).imageRef
    ELSE TrimPrefix(text, prefixImage)

\* the exclusion policy covers the matched text: an action by its name or by the whole
\* reference on exclude, a docker:// image by its reference or name on exclude, an image
\* by its name on exclude_images or its tag on exclude_tags
Covered(text) ==
    IF parser = "actions"
    THEN LET r == TrimPrefix(text, prefixUses)
             d == TrimPrefix(r, prefixDocker)
         IN IF HasPrefix(r, prefixDocker)
            THEN \/ SliceContains(cfg.GHActions.Exclude, d)
                 \/ ParseReference(d).ok
                    /\ SliceContains(cfg.GHActions.Exclude, ParseReference(d).name)
            ELSE \/ SliceContains(cfg.GHActions.Exclude, r)
                 \/ \E i \in 1..Len(cfg.GHActions.Exclude) :
                       HasPrefix(r, cfg.GHActions.Exclude[i] \o "@")
    ELSE LET p == ParseReference(ImageRefOf(text))
         IN /\ p.ok
            /\ \/ SliceContains(cfg.Images.ExcludeImages, getImageNameFromRef(p))
               \/ SliceContains(cfg.Images.ExcludeTags, p.identifier)

\* C5: a call of Replace on a reference the exclusion policy covers issues no request,
\* neither to the source-control API nor to a registry, and returns the
\* reference-skipped signal, whatever the form of the reference.
C5_ExcludedNeverLookedUp ==
    call[FileTask].stage # "idle" /\ Covered(call[FileTask].matched)
        => /\ call[FileTask].reqs = <<>>
           /\ call[FileTask].stage = "returned"
                  => ErrorsIs(call[FileTask].err, ErrReferenceSkipped)

\* C5, the failing case reached: Replace has returned the skip signal for a docker://
\* image whose name is on exclude, after a registry request for it
C5_Witness ==
    /\ call[FileTask].stage = "returned"
    /\ call[FileTask].form = "docker"
    /\ Covered(call[FileTask].matched)
    /\ ErrorsIs(call[FileTask].err, ErrReferenceSkipped)
    /\ call[FileTask].reqs # <<>>

\* C5, what does hold: an excluded action reference, FROM image or image: image is
\* skipped before any request
C5_ExcludedActionsAndImagesNeverLookedUp ==
    (/\ call[FileTask].stage # "idle"
     /\ Covered(call[FileTask].matched)
     /\ call[FileTask].form # "docker")
        => /\ call[FileTask].reqs = <<>>
           /\ call[FileTask].stage = "returned"
           /\ ErrorsIs(call[FileTask].err, ErrReferenceSkipped)

\* C5, states the last property is about: an excluded action, and an excluded image
C5_ExcludedSkippedWitness ==
    /\ call[FileTask].stage = "returned"
    /\ Covered(call[FileTask].matched)
    /\ call[FileTask].form # "docker"
    /\ call[FileTask].matched \in {"uses: actions/cache@v4", "FROM scratch", "image: nginx:latest"}

(***************************************************************************)
(* Properties of GetChecksum: tag first, then branch.                      *)
(***************************************************************************)
\* the call has asked for its reference as a branch
BranchRequested(c) == \E i \in 1..Len(c.reqs) : c.reqs[i] = branchPath(c.owner, c.repo, c.ref)

\* the answers that doGetReference takes for "nothing here" or for an object
Answered(kind) == kind \in {"not found", "array", "object"}

\* C6: the tag is looked up first; the branch lookup is issued, or about to be, only
\* after the tag lookup has ended without an error and without a SHA, every answer so
\* far having been a not-found or a body; and once the tag lookup has yielded a SHA the
\* call returns that SHA, with no branch lookup and without asking the branch-exclusion
\* policy.
C6_TagFirstThenBranch ==
    /\ call[FileTask].reqs # <<>> /\ call[FileTask].form = "action"
          => call[FileTask].reqs[1]
                = tagPath(call[FileTask].owner, call[FileTask].repo, call[FileTask].ref)
    /\ call[FileTask].stage = "branch" \/ BranchRequested(call[FileTask])
          => /\ call[FileTask].tagDone /\ call[FileTask].tagRes = ""
             /\ Len(call[FileTask].reqs) > 1
             /\ \A i \in 1..Len(call[FileTask].reqs) :
                   \/ i = Len(call[FileTask].reqs) /\ call[FileTask].stage # "branch"
                   \/ /\ Answered(call[FileTask].resps[i])
                      /\ call[FileTask].reqs[i]
                            # branchPath(call[FileTask].owner, call[FileTask].repo,
                                         call[FileTask].ref)
    /\ call[FileTask].tagDone /\ call[FileTask].tagRes # ""
          => /\ call[FileTask].stage = "returned"
             /\ call[FileTask].err = NoErr
             /\ call[FileTask].ret.Ref = call[FileTask].tagRes
             /\ ~BranchRequested(call[FileTask])
             /\ ~call[FileTask].exclChecked

\* C6: a reference that is no tag upstream has been resolved as a branch, by a tag
\* lookup answered not-found and then a branch lookup
C6_Witness ==
    /\ call[FileTask].stage = "returned"
    /\ call[FileTask].err = NoErr
    /\ call[FileTask].resps[1] = "not found"
    /\ BranchRequested(call[FileTask])
    /\ call[FileTask].ret.Ref = ShaBranch

\* the branch-exclusion policy covers ref: the list holds the wildcard, or ref itself
PolicyCovers(excludes, ref) == \E i \in 1..Len(excludes) : excludes[i] \in {"*", ref}

\* C7: once ref has not resolved as a tag and the branch-exclusion policy covers it,
\* the call has returned the skip signal and has issued no branch lookup.
C7_ExcludedBranchSkippedWithoutLookup ==
    (/\ call[FileTask].tagDone
     /\ call[FileTask].tagRes = ""
     /\ PolicyCovers(cfg.GHActions.Filter.ExcludeBranches, call[FileTask].ref))
        => /\ call[FileTask].stage = "returned"
           /\ ErrorsIs(call[FileTask].err, ErrReferenceSkipped)
           /\ ~BranchRequested(call[FileTask])

\* C7: a call whose ref was no tag and is covered by the policy has returned
C7_Witness ==
    /\ call[FileTask].stage = "returned"
    /\ call[FileTask].tagDone /\ call[FileTask].tagRes = ""
    /\ call[FileTask].reqs # <<>>
    /\ PolicyCovers(cfg.GHActions.Filter.ExcludeBranches, call[FileTask].ref)
    /\ ErrorsIs(call[FileTask].err, ErrReferenceSkipped)

\* ref exists upstream as a branch / as a tag: the reference's path answers with an object
IsBranchUpstream(c) ==
    /\ branchPath(c.owner, c.repo, c.ref) \in DOMAIN upstream
    /\ upstream[branchPath(c.owner, c.repo, c.ref)].kind = "object"

IsTagUpstream(c) ==
    /\ tagPath(c.owner, c.repo, c.ref) \in DOMAIN upstream
    /\ upstream[tagPath(c.owner, c.repo, c.ref)].kind = "object"

\* the call has come to its end with every request answered by the upstream itself
Undisturbed(c) ==
    /\ c.stage = "returned"
    /\ c.reqs # <<>>
    /\ \A i \in 1..Len(c.resps) : Answered(c.resps[i])

\* C8: for a ref that is a branch upstream and no tag, once the tag lookup is over:
\* under exclude_branches ["*"] the call returns the skip signal whatever the name;
\* under ["main"] the branch main is skipped, while any other branch is looked up and
\* resolves to the SHA the upstream holds for it; under an empty list the branch is
\* looked up and resolves, and is never skipped.
C8_ExcludeBranchesValues ==
    (/\ call[FileTask].tagDone
     /\ call[FileTask].tagRes = ""
     /\ IsBranchUpstream(call[FileTask]))
        => IF cfg.GHActions.Filter.ExcludeBranches = <<"*">>
              \/ /\ cfg.GHActions.Filter.ExcludeBranches = <<"main">>
                 /\ call[FileTask].ref = "main"
           THEN /\ call[FileTask].stage = "returned"
                /\ ErrorsIs(call[FileTask].err, ErrReferenceSkipped)
                /\ ~BranchRequested(call[FileTask])
           ELSE /\ call[FileTask].stage = "branch" \/ BranchRequested(call[FileTask])
                /\ ~ErrorsIs(call[FileTask].err, ErrReferenceSkipped)
                /\ Undisturbed(call[FileTask])
                      => /\ call[FileTask].err = NoErr
                         /\ call[FileTask].ret.Ref
                               = upstream[branchPath(call[FileTask].owner, call[FileTask].repo,
                                                     call[FileTask].ref)].sha

\* C8: under exclude_branches ["main"], a branch other than main has resolved to its SHA
C8_Witness ==
    /\ cfg.GHActions.Filter.ExcludeBranches = <<"main">>
    /\ call[FileTask].stage = "returned"
    /\ call[FileTask].ref = "v2"
    /\ call[FileTask].tagDone /\ call[FileTask].tagRes = ""
    /\ IsBranchUpstream(call[FileTask])
    /\ call[FileTask].err = NoErr
    /\ call[FileTask].ret.Ref = ShaBranch

\* C9, as stated: a ref that is not 40 characters long and is upstream neither a tag
\* nor a branch makes the resolution fail with "action reference is not a tag nor
\* branch", and with no skip signal.
C9_NeitherTagNorBranchIsHardError ==
    (/\ Undisturbed(call[FileTask])
     /\ call[FileTask].form = "action"
     /\ Len(call[FileTask].ref) # ChecksumLen
     /\ ~IsTagUpstream(call[FileTask])
     /\ ~IsBranchUpstream(call[FileTask]))
        => /\ ErrorsIs(call[FileTask].err, ErrInvalidActionReference)
           /\ ~ErrorsIs(call[FileTask].err, ErrReferenceSkipped)

\* C9, amended: the same, for a ref the branch-exclusion policy does not cover; a ref
\* it covers ends in the skip signal instead, the branch never being looked up.
C9_NeitherTagNorBranchUnlessExcluded ==
    (/\ Undisturbed(call[FileTask])
     /\ call[FileTask].form = "action"
     /\ Len(call[FileTask].ref) # ChecksumLen
     /\ ~IsTagUpstream(call[FileTask])
     /\ ~IsBranchUpstream(call[FileTask]))
        => IF PolicyCovers(cfg.GHActions.Filter.ExcludeBranches, call[FileTask].ref)
           THEN /\ ErrorsIs(call[FileTask].err, ErrReferenceSkipped)
                /\ ~ErrorsIs(call[FileTask].err, ErrInvalidActionReference)
           ELSE /\ ErrorsIs(call[FileTask].err, ErrInvalidActionReference)
                /\ ~ErrorsIs(call[FileTask].err, ErrReferenceSkipped)

\* C9: a ref found neither as a tag nor as a branch, and not covered by the policy, has
\* failed with the hard error after both lookups
C9_Witness ==
    /\ Undisturbed(call[FileTask])
    /\ call[FileTask].form = "action"
    /\ ~IsTagUpstream(call[FileTask])
    /\ ~IsBranchUpstream(call[FileTask])
    /\ BranchRequested(call[FileTask])
    /\ ErrorsIs(call[FileTask].err, ErrInvalidActionReference)

(***************************************************************************)
(* Properties of doGetReference: a failed transport.                       *)
(***************************************************************************)
\* C10: once restIf.Do has handed back an error and no response, the resolver has
\* returned to its caller an error that wraps the transport failure.
C10_TransportFailureReturned ==
    (/\ call[FileTask].resps # <<>>
     /\ call[FileTask].resps[Len(call[FileTask].resps)] = "transport")
        => /\ call[FileTask].stage = "returned"
           /\ ErrorsIs(call[FileTask].err, ErrTransport)

\* C10, the failing case reached: after a transport failure the call has not returned,
\* the process has died in doGetReference
C10_Witness ==
    /\ call[FileTask].resps # <<>>
    /\ call[FileTask].resps[Len(call[FileTask].resps)] = "transport"
    /\ call[FileTask].stage = "panic"
    /\ crashed


(***************************************************************************)
(* Properties of a canceled context during the directory-wide rewrite.     *)
(***************************************************************************)
\* the last request of call c was answered with the context's cancellation
MetCancellation(c) == c.resps # <<>> /\ c.resps[Len(c.resps)] = "canceled"

C12_SecondIdenticalServedFromCache ==
    cacheOn =>
       /\ \A i, j \in 1..Len(calls[FileTask]) :
             ( /\ i < j
               /\ calls[FileTask][i].matched = calls[FileTask][j].matched
               /\ calls[FileTask][i].looked
               /\ calls[FileTask][i].sum # "" ) =>
                /\ calls[FileTask][j].hit
                /\ ~calls[FileTask][j].looked
                /\ calls[FileTask][j].sum = calls[FileTask][i].sum
                /\ calls[FileTask][j].ref = calls[FileTask][i].ref
       /\ \A i \in 1..Len(calls[FileTask]) :
             ( /\ call[FileTask].stage # "idle"
               /\ call[FileTask].matched = calls[FileTask][i].matched
               /\ calls[FileTask][i].looked
               /\ calls[FileTask][i].sum # "" ) =>
                /\ call[FileTask].stage = "returned"
                /\ call[FileTask].hit
                /\ call[FileTask].reqs = <<>>
                /\ call[FileTask].sum = calls[FileTask][i].sum

\* two calls on the same matched string: the first went to the resolver, the second was
\* answered by the cache, and both returned the same Ref
C12_Witness ==
    /\ cacheOn
    /\ Len(calls[FileTask]) = 2
    /\ calls[FileTask][1].matched = calls[FileTask][2].matched
    /\ calls[FileTask][1].looked
    /\ calls[FileTask][2].hit
    /\ calls[FileTask][2].ref # ""
    /\ calls[FileTask][2].ref = calls[FileTask][1].ref


(***************************************************************************)
(* Properties of the RefCacher used by one caller.                         *)
(***************************************************************************)
\* the index of the most recent Store(key, .) made before call i, or 0
LastStore(h, i, key) ==
    LET S == {j \in 1..(i - 1) : h[j].name = "Store" /\ h[j].key = key}
    IN IF S = {} THEN 0 ELSE CHOOSE j \in S : \A k \in S : k <= j

\* C13: with one caller and either implementation, a Load(k) returns
\* (v, true) with v the value of the most recent Store(k, .) when there was
\* one, ("", false) when there was none; a key once stored stays in the map.
C13_LoadReturnsMostRecentStore ==
    /\ \A i \in 1..Len(history) :
          (history[i].name = "Load" /\ history[i].done) =>
             IF LastStore(history, i, history[i].key) = 0
             THEN ~history[i].ok /\ history[i].value = ""
             ELSE /\ history[i].ok
                  /\ history[i].value = history[LastStore(history, i, history[i].key)].value
    /\ \A j \in StoresReturned(history) : history[j].key \in DOMAIN cache

\* the unsafeCacher stored two values under one key and the Load returned the second
C13_Witness ==
    /\ cacher = "unsafeCacher"
    /\ Len(history) = 3
    /\ history[1].name = "Store" /\ history[2].name = "Store" /\ history[3].name = "Load"
    /\ history[1].key = history[3].key /\ history[2].key = history[3].key
    /\ history[1].value # history[2].value
    /\ history[3].done /\ history[3].ok
    /\ history[3].value = history[2].value

(***************************************************************************)
(* Properties of the refCacher used by several goroutines at once.         *)
(***************************************************************************)
\* C14: whatever the interleaving, a Load(k) on the refCacher returns
\* not-found or a value some call Store(k, .) was given; and a Load(k) made
\* after a Store(k, v) had returned, with no other Store to k, returns (v, true).
C14_ConcurrentLoadsSeeStores ==
    \A i \in 1..Len(history) :
       (history[i].name = "Load" /\ history[i].done) =>
          /\ IF history[i].ok
             THEN \E j \in 1..Len(history) :
                     /\ history[j].name = "Store"
                     /\ history[j].key = history[i].key
                     /\ history[j].value = history[i].value
             ELSE history[i].value = ""
          /\ \A j \in history[i].after :
                ( /\ history[j].key = history[i].key
                  /\ \A k \in 1..Len(history) :
                        (k # j /\ history[k].name = "Store") => history[k].key # history[i].key ) =>
                   history[i].ok /\ history[i].value = history[j].value

\* a Load made after a Store to its key had returned came back with the stored value while
\* another goroutine's Store to a different key was still under way
C14_Witness ==
    /\ Len(history) = 3
    /\ history[1].name = "Store" /\ history[1].done
    /\ history[2].name = "Store" /\ ~history[2].done /\ history[2].key # history[1].key
    /\ history[3].name = "Load" /\ history[3].done /\ history[3].key = history[1].key
    /\ history[3].after = {1}
    /\ history[3].ok /\ history[3].value = history[1].value


(***************************************************************************)
(* Properties of ParseFile applied to what an earlier ParseFile returned.  *)
(***************************************************************************)
\* the second ParseFile has returned without an error
ParsedAgain == previous.set /\ result[FileTask].set /\ result[FileTask].err = NoErr

\* C15, as stated: the second rewrite changes nothing: it reports modified =
\* false and the content it returns is the content it was given.
C15_SecondRewriteChangesNothing ==
    ParsedAgain =>
       /\ ~result[FileTask].modified
       /\ result[FileTask].content = previous.content

\* the second rewrite returned a content that is not the content it was given
C15_Witness ==
    /\ ParsedAgain
    /\ ~result[FileTask].modified
    /\ result[FileTask].content # previous.content

\* C15, the part that holds: the second rewrite pins nothing.  No call of
\* Replace returns a reference, every line is written with the text it was
\* read with, and modified is false.
C15_SecondRewritePinsNothing ==
    ParsedAgain =>
       /\ ~result[FileTask].modified
       /\ output[FileTask] = input[FileTask]
       /\ result[FileTask].content = Content(input[FileTask])
       /\ \A i \in 1..Len(calls[FileTask]) : calls[FileTask][i].ref = ""

\* the first rewrite pinned a reference and the second one skipped it
C15_PinnedSkippedWitness ==
    /\ ParsedAgain
    /\ previous.modified
    /\ errs[FileTask].skip
    /\ result[FileTask].content = previous.content


(***************************************************************************)
(* Properties of what parser.Replace returns.                              *)
(***************************************************************************)
\* the identifier the matched reference carries: an action's ref, an image's tag or digest
Carried(c) == IF c.form = "action" THEN c.ref ELSE c.identifier

\* C16: an EntityRef that Replace returns with a nil error has a Ref that
\* differs from its Tag; and when the identifier found is the one the
\* reference carries already, Replace returns no EntityRef but the skip signal.
C16_RefDiffersFromTagOrSkip ==
    \A t \in Tasks :
       call[t].stage = "returned" =>
          /\ call[t].err = NoErr =>
                /\ call[t].ret # NilRef
                /\ call[t].ret.Ref = call[t].sum
                /\ call[t].ret.Tag = Carried(call[t])
                /\ call[t].ret.Ref # call[t].ret.Tag
          /\ (call[t].sum # "" /\ call[t].sum = Carried(call[t])) =>
                /\ call[t].ret = NilRef
                /\ ErrorsIs(call[t].err, ErrReferenceSkipped)

\* an action pinned by the first rewrite resolves to the SHA it carries and Replace skips it
C16_Witness ==
    /\ previous.set
    /\ call[FileTask].stage = "returned"
    /\ call[FileTask].form = "action"
    /\ call[FileTask].sum = ShaCommit
    /\ call[FileTask].ref = ShaCommit
    /\ call[FileTask].ret = NilRef
    /\ ErrorsIs(call[FileTask].err, ErrReferenceSkipped)


(***************************************************************************)
(* Properties of comment lines, of the round trip of a rewritten match and *)
(* of the listing.                                                         *)
(***************************************************************************)
\* the line's first character that is neither a space nor a tab is the comment marker
StartsWithMarker(line) ==
    \E k \in 1..Len(line) :
        /\ Ch(line, k) = "#"
        /\ \A j \in 1..(k - 1) : Ch(line, j) \in {" ", "\t"}

\* the entities of the matches of the reference regex in a line, comment or not
EntitiesIn(line) ==
    With(FindAll(parser, line), LAMBDA matches :
        {ConvertToEntityRef(parser, SubSeq(line, matches[i][1], matches[i][2])).ref :
            i \in 1..Len(matches)} \ {NilRef})

\* the entities of the lines of a file that are not comments
EntitiesOutsideComments(t) ==
    UNION {EntitiesIn(input[t][i]) :
              i \in {j \in 1..Len(input[t]) : ~StartsWithMarker(input[t][j])}}

\* C17: a line whose first non-whitespace character is "#" is never resolved,
\* rewritten or listed, whatever it contains: the rewrite driver hands no such
\* line to ReplaceAllStringFunc, so Replace is never called for it, and writes
\* it as it read it; the lister's set of a file, the shared set and the returned
\* entities hold only what the lines that are not comments hold.
C17_CommentLinesLeftAlone ==
    /\ mode = "file" =>
          \A t \in Tasks :
             /\ \A i \in 1..Len(output[t]) :
                   StartsWithMarker(input[t][i]) =>
                       output[t][i] = input[t][i] /\ done[t][i] = <<>>
             /\ cur[t] # NoLine => ~StartsWithMarker(cur[t].line)
             /\ call[t] # NoCall => cur[t] # NoLine
    /\ mode = "list" =>
          /\ \A t \in Tasks : found[t] = EntitiesOutsideComments(t)
          /\ listed.found =
                UNION {EntitiesOutsideComments(listed.Processed[i]) :
                          i \in 1..Len(listed.Processed)}
          /\ listResult.ok =>
                {listResult.res.Entities[i] : i \in 1..Len(listResult.res.Entities)}
                    = listed.found

\* ParseFile has returned the content of a file with a comment line that holds a
\* match of the reference regex, next to a line whose match was resolved
C17_Witness ==
    /\ mode = "file"
    /\ result[FileTask].set /\ result[FileTask].err = NoErr
    /\ \E i, j \in 1..Len(input[FileTask]) :
          /\ StartsWithMarker(input[FileTask][i])
          /\ FindAll(parser, input[FileTask][i]) # <<>>
          /\ done[FileTask][j] = <<TRUE>>
    /\ result[FileTask].modified

\* ListPathInFS has returned the entities of a directory in which a file holds
\* `uses: actions/checkout@v2` both in a line and in a comment line
C17_ListerWitness ==
    /\ mode = "list"
    /\ listResult.ok
    /\ \E t \in Tasks :
          /\ \E i \in 1..Len(input[t]) :
                StartsWithMarker(input[t][i]) /\ FindAll(parser, input[t][i]) # <<>>
          /\ \E i \in 1..Len(input[t]) :
                ~StartsWithMarker(input[t][i]) /\ FindAll(parser, input[t][i]) # <<>>
    /\ Len(listResult.res.Entities) = 1


\* C18: an action reference whose ref is 40 characters long is taken for a commit
\* SHA: no request is ever made for it; the resolver's answer, or the cache's, is
\* the ref itself; Replace returns no entity and an error that wraps the skip
\* signal, and the driver puts the matched text back as it was.
C18_ChecksumRefSkippedWithoutRequest ==
    \A t \in Tasks :
        (call[t].form = "action" /\ Len(call[t].ref) = ChecksumLen) =>
            /\ call[t].reqs = <<>>
            /\ call[t].stage \notin {"tag", "deref", "branch"}
            /\ call[t].stage = "returned" =>
                  /\ call[t].ret = NilRef
                  /\ ErrorsIs(call[t].err, ErrReferenceSkipped)
                  /\ Replacement(call[t]) = call[t].matched
                  /\ ~shouldExclude(cfg.GHActions, call[t].act) => call[t].sum = call[t].ref

\* Replace has returned for `actions/checkout@<sha> # v2`, which the first rewrite
\* wrote, and for a branch with a name of 40 characters
C18_Witness ==
    /\ call[FileTask].stage = "returned"
    /\ call[FileTask].form = "action"
    /\ call[FileTask].ref = BranchLong
    /\ call[FileTask].sum = BranchLong
    /\ ErrorsIs(call[FileTask].err, ErrReferenceSkipped)

\* Replace has returned a skip for the commit SHA the first rewrite pinned
C18_PinnedWitness ==
    /\ previous.set /\ previous.modified
    /\ call[FileTask].stage = "returned"
    /\ call[FileTask].ref \in {ShaCommit, ShaBranch}
    /\ call[FileTask].reqs = <<>>


\* ConvertToEntityRef applied to the first match of the parser's regex in a text
ParsedBack(text) ==
    With(FindAll(parser, text), LAMBDA matches :
        IF matches = <<>> THEN [ref |-> NilRef, err |-> <<"no match">>]
        ELSE ConvertToEntityRef(parser, SubSeq(text, matches[1][1], matches[1][2])))

\* the text written for a resolved match parses back to the entity Replace returned
RoundTrips(c) ==
    With(ParsedBack(Replacement(c)), LAMBDA e :
        /\ e.err = NoErr
        /\ e.ref.Name = c.ret.Name
        /\ e.ref.Ref = c.ret.Ref)

\* C19, as stated: the text written for a successfully resolved match, matched
\* again by the parser's regex and handed to the parser's ConvertToEntityRef,
\* gives an entity with the Name and the Ref of the EntityRef that Replace
\* returned, for action lines, image lines and FROM lines alike.
C19_RewrittenTextParsesBack ==
    \A t \in Tasks :
        (call[t].stage = "returned" /\ call[t].err = NoErr) => RoundTrips(call[t])

\* the same for the matches that are not FROM lines: `uses:` lines, docker://
\* references among them, and `image:` lines
C19_UsesAndImageLinesParseBack ==
    \A t \in Tasks :
        (call[t].stage = "returned" /\ call[t].err = NoErr /\ call[t].form # "from")
            => RoundTrips(call[t])

\* Replace has returned an entity for a FROM line, and the text written for it
\* has a match of the regex that ConvertToEntityRef accepts
C19_Witness ==
    /\ call[FileTask].stage = "returned"
    /\ call[FileTask].err = NoErr
    /\ call[FileTask].form = "from"
    /\ ParsedBack(Replacement(call[FileTask])).err = NoErr

\* Replace has returned an entity for an `image:` line and its text parses back
C19_ImageLineWitness ==
    /\ call[FileTask].stage = "returned"
    /\ call[FileTask].err = NoErr
    /\ call[FileTask].form = "image"
    /\ RoundTrips(call[FileTask])


\* how many places of a slice hold e
Occurrences(slice, e) == Cardinality({i \in 1..Len(slice) : slice[i] = e})

\* the lines of the directory's files, as (file, line number), that hold e outside a comment
Holding(e) ==
    {<<t, i>> \in Tasks \X (1..ListMaxLines) :
        i <= Len(input[t]) /\ ~StartsWithMarker(input[t][i]) /\ e \in EntitiesIn(input[t][i])}

\* C20: the listing is de-duplicated: once ListPathInFS has returned, every
\* reference (an EntityRef: Name, Ref and Type) that a line of a file of the
\* directory holds outside a comment stands exactly once among the returned
\* entities, however many lines and files hold it, and nothing else stands there.
C20_EachReferenceListedOnce ==
    listResult.ok =>
        With(UNION {EntitiesOutsideComments(t) : t \in Tasks}, LAMBDA held :
            /\ \A e \in held : Occurrences(listResult.res.Entities, e) = 1
            /\ \A i \in 1..Len(listResult.res.Entities) : listResult.res.Entities[i] \in held)

\* ListPathInFS has returned one entity for a reference that both files of the
\* directory, listed by two goroutines, hold
C20_Witness ==
    /\ listResult.ok
    /\ \E e \in listed.found :
          /\ \A t \in Tasks : \E i \in 1..Len(input[t]) : <<t, i>> \in Holding(e)
          /\ Occurrences(listResult.res.Entities, e) = 1

\* ListPathInFS has returned one entity for a reference that two lines of one
\* file hold
C20_WithinFileWitness ==
    /\ listResult.ok
    /\ \E e \in listed.found : \E t \in Tasks :
          /\ \A i \in 1..2 : <<t, i>> \in Holding(e)
          /\ Occurrences(listResult.res.Entities, e) = 1


\* the Names of a slice of entities do not decrease
SortedByName(slice) ==
    \A i, j \in 1..Len(slice) : i < j => ~StringLess(slice[j].Name, slice[i].Name)

\* C21, as stated: the entities the lister returns are sorted by Name, and
\* listing the same directory twice returns the same entities in the same
\* order, entities that share a Name included.
C21_ListingSortedAndDeterministic ==
    /\ listResult.ok => SortedByName(listResult.res.Entities)
    /\ relisted.ok =>
          /\ SortedByName(relisted.res.Entities)
          /\ relisted.res.Entities = listResult.res.Entities

\* the part that holds: both listings are sorted by Name and hold the same
\* entities, and they stand in the same order when no two of them share a Name
C21_SortedAndSameUpToTies ==
    /\ listResult.ok => SortedByName(listResult.res.Entities)
    /\ relisted.ok =>
          /\ SortedByName(relisted.res.Entities)
          /\ {relisted.res.Entities[i] : i \in 1..Len(relisted.res.Entities)}
                = {listResult.res.Entities[i] : i \in 1..Len(listResult.res.Entities)}
          /\ (\A e1, e2 \in listed.found : e1 # e2 => e1.Name # e2.Name)
                => relisted.res.Entities = listResult.res.Entities

\* the directory has been listed twice, and two of its entities share a Name and
\* differ in Ref
C21_Witness ==
    /\ relisted.ok
    /\ \E i, j \in 1..Len(relisted.res.Entities) :
          /\ relisted.res.Entities[i].Name = relisted.res.Entities[j].Name
          /\ relisted.res.Entities[i].Ref # relisted.res.Entities[j].Ref


(***************************************************************************)
(* Properties of the command line.                                         *)
(***************************************************************************)
\* C22, as stated: a directory rewrite run with the error-on-modified option
\* exits with a status other than zero when at least one file was modified, and
\* with status zero when no file was modified and nothing failed.
C22_ErrorOnModifiedSetsExitStatus ==
    (cmd.set /\ cmd.ErrOnModified /\ dirResult.ok) =>
        /\ DOMAIN dirResult.res.Modified # {} => cmd.status # 0
        /\ (DOMAIN dirResult.res.Modified = {} /\ cmd.err = NoErr) => cmd.status = 0

\* what the command does: its exit status is 1 exactly when ParsePath or the
\* writing of the output failed, with the option or without it
C22_ExitStatusFollowsFailuresOnly ==
    cmd.set =>
        /\ cmd.status = (IF cmd.err # NoErr THEN 1 ELSE 0)
        /\ ~dirResult.ok => cmd.err = dirResult.err
        /\ (dirResult.ok /\ DOMAIN dirResult.res.Modified = {}) => cmd.status = 0
        /\ cmd.err # <<"files were modified">>

\* the command has run with the option on a directory of which a file was
\* modified, and the output was written
C22_Witness ==
    /\ cmd.set /\ cmd.ErrOnModified
    /\ dirResult.ok
    /\ DOMAIN dirResult.res.Modified # {}
    /\ cmd.err = NoErr

ResolvedUpstream(key) ==
    {<<t, i>> \in Tasks \X (1..DirMaxLines) :
        IF i > Len(calls[t]) THEN FALSE
        ELSE calls[t][i].key = key /\ calls[t][i].looked /\ calls[t][i].sum # ""}

\* C24: in a directory rewrite with the cache enabled, every reference string is
\* resolved by the resolver at most once, also when two files read at the same time
\* hold it.
C24_EachReferenceResolvedOnce ==
    (mode = "dir" /\ cacheOn) =>
        \A t \in Tasks : \A i \in 1..Len(calls[t]) :
            Cardinality(ResolvedUpstream(calls[t][i].key)) <= 1

\* C24: two files hold the same reference; one task resolved it upstream and the
\* other task's call was answered from the shared cache
C24_Witness ==
    /\ mode = "dir"
    /\ cacheOn
    /\ \E t, u \in Tasks :
        /\ t # u
        /\ calls[t] # <<>> /\ calls[u] # <<>>
        /\ calls[t][1].key = calls[u][1].key
        /\ calls[t][1].looked /\ calls[t][1].sum # ""
        /\ calls[u][1].hit

\* C25: ParsePathInFS returns only in a step after which every goroutine it started
\* has finished; a goroutine's returning an error leaves the context of the others as
\* it is, so they run on, and the batch then returns that first error and no result.
C25_ReturnsAfterEveryTaskFinished ==
    [][/\ (~dirResult.set /\ dirResult'.set) =>
            /\ \A t \in Tasks : pc[t] = "done"
            /\ IF exits # <<>>
               THEN ~dirResult'.ok /\ dirResult'.err = exits[1]
               ELSE dirResult'.ok /\ dirResult'.err = NoErr
       /\ (exits' # exits) => /\ ctx' = ctx
                              /\ \A t \in Tasks : pc'[t] # pc[t] => pc'[t] = "done" /\ pc[t] # "idle"]_vars

\* C25: the batch has returned the error of one goroutine after the other goroutine
\* had gone through its whole file and merged it
C25_Witness ==
    /\ dirResult.set
    /\ ~dirResult.ok
    /\ dirResult.err = exits[1]
    /\ Len(exits) = 1
    /\ ctx = "live"
    /\ Len(res.Processed) = 1
    /\ \A t \in Tasks : pc[t] = "done"

\* the files merged into the shared result so far
Merged == {res.Processed[i] : i \in 1..Len(res.Processed)}

\* C26: in a directory rewrite a step changes the shared result only as the merge of
\* the one task that holds the mutex, no other task being between Lock and Unlock;
\* and a step changes the output or the outcome of one file only, a file that has
\* not been merged yet.
C26_SharedResultChangedUnderMutex ==
    [][mode = "dir" =>
        /\ (res' # res) =>
              \E t \in Tasks :
                 /\ mu = t
                 /\ {u \in Tasks : pc[u] = "locked"} = {t}
                 /\ res'.Processed = Append(res.Processed, t)
                 /\ mu' = ""
        /\ \A t \in Tasks :
              (output'[t] # output[t] \/ result'[t] # result[t]) =>
                  /\ t \notin Merged
                  /\ pc[t] \notin {"merge", "locked", "done"}
                  /\ \A u \in Tasks \ {t} : output'[u] = output[u] /\ result'[u] = result[u]]_vars

\* C26: one task holds the mutex while the other has its file ready and waits for it
C26_Witness ==
    /\ mode = "dir"
    /\ \E t, u \in Tasks :
        /\ t # u
        /\ mu = t /\ pc[t] = "locked"
        /\ pc[u] = "merge"
        /\ result[u].set /\ result[t].set
        /\ res.Processed = <<>>

\* C29: once ParsePathInFS has returned its result, every file of the directory is in
\* Processed exactly once, and the keys of Modified are exactly the files whose
\* rewrite reported modified = true, each mapped to the content that rewrite returned.
C29_ProcessedAndModifiedAccountForEveryFile ==
    (dirResult.set /\ dirResult.ok) =>
        /\ \A t \in Tasks :
              Cardinality({i \in 1..Len(dirResult.res.Processed) : dirResult.res.Processed[i] = t}) = 1
        /\ Len(dirResult.res.Processed) = Cardinality(Tasks)
        /\ DOMAIN dirResult.res.Modified = {t \in Tasks : result[t].modified}
        /\ \A t \in DOMAIN dirResult.res.Modified :
              /\ dirResult.res.Modified[t] = result[t].content
              /\ dirResult.res.Modified[t] = Content(output[t])

\* C29: the batch has returned with one file modified and the other one not
C29_Witness ==
    /\ dirResult.set
    /\ dirResult.ok
    /\ \E t, u \in Tasks :
        /\ result[t].modified
        /\ ~result[u].modified
        /\ DOMAIN dirResult.res.Modified = {t}
        /\ dirResult.res.Modified[t] # reader[t]

(***************************************************************************)
(* Properties of getCheckSumForTag: the lookups a tag costs.                *)
(***************************************************************************)
\* the requests of the call, after its first, that are not the branch lookup
Dereferences(c) ==
    {i \in 2..Len(c.reqs) : c.reqs[i] # branchPath(c.owner, c.repo, c.ref)}

\* the first lookup of the call was answered with an object of this type
TagAnsweredWith(c, otype) ==
    /\ c.resps[1] = "object"
    /\ Answer(upstream, c.reqs[1]).otype = otype

\* C27: once getCheckSumForTag is over, it has issued one lookup when the tag's object
\* is a commit, and one more, the dereference of the tag object, when it is a tag; in
\* every other case, a tag that was not found among them, it has issued no dereference.
C27_DereferenceOnlyForTagObjects ==
    (/\ call[FileTask].form = "action"
     /\ call[FileTask].reqs # <<>>
     /\ call[FileTask].stage \in {"branch", "returned"})
        => IF TagAnsweredWith(call[FileTask], "tag")
           THEN /\ Dereferences(call[FileTask]) = {2}
                /\ call[FileTask].reqs[2]
                      = tagObjectPath(call[FileTask].owner, call[FileTask].repo,
                                      Answer(upstream, call[FileTask].reqs[1]).sha)
           ELSE Dereferences(call[FileTask]) = {}

\* C27: an annotated tag has been resolved with two lookups, the tag and its object
C27_Witness ==
    /\ call[FileTask].stage = "returned"
    /\ call[FileTask].err = NoErr
    /\ call[FileTask].reqs # <<>>
    /\ TagAnsweredWith(call[FileTask], "tag")
    /\ Len(call[FileTask].reqs) = 2
    /\ call[FileTask].resps[2] = "object"
    /\ call[FileTask].sum = Answer(upstream, call[FileTask].reqs[2]).sha

\* C27: a tag whose object is a commit has been resolved with the one lookup
C27_CommitWitness ==
    /\ call[FileTask].stage = "returned"
    /\ call[FileTask].err = NoErr
    /\ call[FileTask].reqs # <<>>
    /\ TagAnsweredWith(call[FileTask], "commit")
    /\ Len(call[FileTask].reqs) = 1

(***************************************************************************)
(* Properties of the modified flag of ParseFile.                            *)
(***************************************************************************)
\* some match of the file was resolved and its replacement written
SomeMatchReplaced(t) ==
    \E i \in 1..Len(done[t]) : \E j \in 1..Len(done[t][i]) : done[t][i][j]

\* C30, amended: once ParseFile has come to the end of the input and returned with a
\* nil error, modified is true if and only if at least one match of the file was
\* resolved and replaced; a file whose matches were all skipped, failed or absent has
\* modified = false.
C30_ModifiedIffSomeMatchReplaced ==
    (result[FileTask].set /\ result[FileTask].err = NoErr) =>
        (result[FileTask].modified <=> SomeMatchReplaced(FileTask))

\* C30: a file with a replaced match and a match left alone has returned modified =
\* true, its content changed
C30_Witness ==
    /\ result[FileTask].set
    /\ result[FileTask].err = NoErr
    /\ result[FileTask].modified
    /\ SomeMatchReplaced(FileTask)
    /\ \E i \in 1..Len(done[FileTask]) : \E j \in 1..Len(done[FileTask][i]) : ~done[FileTask][i][j]
    /\ result[FileTask].content # reader[FileTask]

\* C30: a file whose only match failed to resolve has returned modified = false
C30_UnmodifiedWitness ==
    /\ result[FileTask].set
    /\ result[FileTask].err = NoErr
    /\ ~result[FileTask].modified
    /\ errs[FileTask].hard
    /\ calls[FileTask] # <<>>

\* C30, as stated: whenever ParseFile has returned, modified is true if and only if at
\* least one match of the file was resolved and replaced.
C30_ModifiedOnEveryReturn ==
    result[FileTask].set => (result[FileTask].modified <=> SomeMatchReplaced(FileTask))

(***************************************************************************)
(* Properties of the cache of a parser.                                     *)
(***************************************************************************)
\* what a call of Replace hands back: the reference or nil, and the error
Outcome(c) == [ret |-> c.ret, err |-> c.err]

\* the same call made on a parser without a cache
Uncached(c) ==
    Resolve(cfg, FALSE, upstream, ParserReplace(parser, cfg, FALSE, EmptyCache, c.matched))

\* C28: against an upstream that does not change, every call of a sequence of calls of
\* Replace on one parser has returned what the same call returns without the cache,
\* the reference or the skip or the error; a call made under one platform constraint
\* is not answered with a value resolved under another.
C28_CacheIsTransparent ==
    (mode = "calls" /\ call[FileTask].stage = "returned") =>
        Outcome(call[FileTask]) = Outcome(Uncached(call[FileTask]))

\* C28: a call has been answered from the cache and has returned the reference that
\* the same call returns without the cache
C28_Witness ==
    /\ mode = "calls"
    /\ call[FileTask].stage = "returned"
    /\ call[FileTask].hit
    /\ call[FileTask].err = NoErr
    /\ Outcome(call[FileTask]) = Outcome(Uncached(call[FileTask]))

====
